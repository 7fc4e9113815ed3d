------------------------------ MODULE Transfer ------------------------------
(***************************************************************************)
(* One file on its way to Drive and back: the engine's upload_via and      *)
(* download_via, with the cipher's loops, the single-shot and the          *)
(* resumable upload, and the streamed download.  The file may be written   *)
(* between any two reads of it, requests fail, and what Drive returns may  *)
(* be damaged.  SyncEngine takes a transfer as one step that may fail;     *)
(* here the transfer is the subject.                                       *)
(***************************************************************************)
EXTENDS FileCipher

CONSTANTS
  Byte, Files,  \* what files are made of, and the contents this one may have
  MaxIdx,       \* the chunk counter's last value
  Threshold,    \* RESUMABLE_THRESHOLD_BYTES
  UploadChunk,  \* UPLOAD_CHUNK_BYTES
  MaxEdits, MaxFaults, MaxDamage,   \* bounds on the environment
  None

ASSUME TransferAssumption ==
  Files \subseteq Seq(Byte) /\ MaxIdx \in Nat \ {0} /\ Threshold \in Nat /\ UploadChunk \in Nat \ {0}

VARIABLES
  encrypted,  \* whether the pair is
  file,       \* the file on this machine
  pc,         \* where the transfer is
  sealing,    \* encrypt_file: the size it read, how far it is, the chunk counter
  temp,       \* the temp file of the upload
  session,    \* resumable_upload: the declared size, how far it is; what Drive has of it
  object,     \* what Drive holds of the file, or None
  got,        \* the temp file of the download
  opening,    \* decrypt_file: how much it has read and emitted, the chunk counter
  dest,       \* the file at the other end
  edits, faults, damages

\* History: the file when the upload began, whether it was written meanwhile, and the
\* bytes the upload has read and those of the object.
VARIABLES asked, touched, reading, sent

up    == <<sealing, temp, session>>
down  == <<got, opening, dest>>
past  == <<asked, touched, reading, sent>>
vars  == <<encrypted, file, pc, up, object, down, edits, faults, damages, past>>

Uploading   == {"sealing", "sending", "putting"}
Downloading == {"fetching", "opening"}
NoLoop      == [total |-> 0, at |-> 0, idx |-> 0]
Loop        == [total : Nat, at : Nat, idx : 0..MaxIdx]

TransferTypeOK ==
  /\ encrypted \in BOOLEAN /\ file \in Files
  /\ pc \in {"idle", "stored", "restored"} \cup Uploading \cup Downloading
  /\ sealing \in Loop /\ opening \in Loop
  /\ session.total \in Nat /\ session.at = Len(session.units)
  /\ session.at <= session.total

Init ==
  /\ encrypted \in BOOLEAN /\ file \in Files
  /\ pc = "idle" /\ sealing = NoLoop /\ temp = <<>>
  /\ session = [total |-> 0, at |-> 0, units |-> <<>>]
  /\ object = None /\ got = <<>> /\ opening = NoLoop /\ dest = <<>>
  /\ edits = 0 /\ faults = 0 /\ damages = 0
  /\ asked = file /\ touched = FALSE /\ reading = <<>> /\ sent = <<>>

env == <<encrypted, file, edits, faults, damages>>

\* The transfer ends with an error; temp files go with it, what is at dest stays.
Ends ==
  /\ pc' = IF pc \in Uploading THEN "idle" ELSE "stored"
  /\ sealing' = NoLoop /\ temp' = <<>> /\ session' = [total |-> 0, at |-> 0, units |-> <<>>]
  /\ got' = <<>> /\ opening' = NoLoop

-----------------------------------------------------------------------------
(***************************************************************************)
(* upload_via and update_remote_via: encrypt_file into a temp file.        *)
(***************************************************************************)
Begin ==
  /\ pc = "idle"
  /\ pc' = IF encrypted THEN "sealing" ELSE "sending"
  /\ sealing' = [total |-> Len(file), at |-> 0, idx |-> 0]
  /\ temp' = Header(Len(file))
  /\ asked' = file /\ touched' = FALSE /\ reading' = <<>>
  /\ UNCHANGED <<env, session, object, down, sent>>

\* Mutant: a file that fills its last chunk gets an empty one after it.
IsLastStrict(at, n, total) == at + n > total

IsLast(at, n, total) == at + n >= total

\* Mutant: the counter runs past its width.
CounterSpentNever(idx) == FALSE

\* checked_add
CounterSpent(idx) == idx = MaxIdx

\* A file that shrank is never at its last chunk: only the counter ends the loop.
SealChunk ==
  /\ pc = "sealing"
  /\ LET data == ReadFull(file, sealing.at, Chunk)
         last == IsLast(sealing.at, Len(data), sealing.total)
     IN IF CounterSpent(sealing.idx)
        THEN Ends /\ UNCHANGED <<object, dest, past>>
        ELSE /\ temp' = temp \o Seal(sealing.idx, last, data)
             /\ sealing' = [sealing EXCEPT !.at = @ + Len(data), !.idx = @ + 1]
             /\ reading' = reading \o data
             /\ pc' = IF last THEN "sending" ELSE "sealing"
             /\ UNCHANGED <<session, object, down, asked, touched, sent>>
  /\ UNCHANGED env

-----------------------------------------------------------------------------
(***************************************************************************)
(* upload_file and update_file.                                            *)
(***************************************************************************)
Source == IF encrypted THEN temp ELSE file
Stored(units) ==
  /\ object' = units
  /\ sent' = IF encrypted THEN reading ELSE units
  /\ pc' = "stored"

\* The size is read first: it picks the way, and is what a resumable session declares.
Dispatch ==
  /\ pc = "sending" /\ session.total = 0
  /\ \/ Len(Source) <= Threshold /\ pc' = "putting" /\ UNCHANGED session
     \/ /\ Len(Source) > Threshold /\ pc' = "putting"
        /\ session' = [total |-> Len(Source), at |-> 0, units |-> <<>>]
  /\ UNCHANGED <<env, sealing, temp, object, down, past>>

\* multipart_upload, and the plain PATCH: the whole file as it is now.
PutWhole ==
  /\ pc = "putting" /\ session.total = 0
  /\ Stored(Source)
  /\ UNCHANGED <<env, up, down, asked, touched, reading>>

\* Mutant: a read of nothing is sent on.
ReadsNothingNever(units) == FALSE

ReadsNothing(units) == units = <<>>

\* Drive takes a chunk that ends within the declared size, and makes the object of the
\* last; a file that shrank, or grew past the size, ends the upload.
PutChunk ==
  /\ pc = "putting" /\ session.total > 0
  /\ LET units == ReadFull(Source, session.at, UploadChunk)
         end   == session.at + Len(units)
         all   == session.units \o units
     IN CASE ReadsNothing(units) \/ end > session.total -> Ends /\ UNCHANGED <<object, dest, past>>
          [] end = session.total ->
               /\ Stored(all)
               /\ session' = [total |-> 0, at |-> 0, units |-> <<>>]
               /\ UNCHANGED <<sealing, temp, down, asked, touched, reading>>
          [] OTHER ->
               /\ session' = [session EXCEPT !.at = end, !.units = all]
               /\ UNCHANGED <<pc, sealing, temp, object, down, past>>
  /\ UNCHANGED env

-----------------------------------------------------------------------------
(***************************************************************************)
(* download_via: download_file, and decrypt_file for an encrypted pair.    *)
(***************************************************************************)
\* A stream that breaks leaves what has come; for a plain pair that is the file itself.
Fetch ==
  /\ pc = "stored"
  /\ IF encrypted
     THEN got' = object /\ pc' = "fetching" /\ UNCHANGED dest
     ELSE dest' = object /\ pc' = "restored" /\ UNCHANGED got
  /\ UNCHANGED <<env, up, object, opening, past>>

FetchBreaks ==
  /\ pc = "stored" /\ faults < MaxFaults /\ faults' = faults + 1
  /\ IF encrypted THEN UNCHANGED dest
     ELSE \E n \in 0..Len(object) : dest' = SubSeq(object, 1, n)
  /\ UNCHANGED <<encrypted, file, edits, damages, pc, up, object, got, opening, past>>

\* The destination is emptied before the first chunk is opened.
OpenHeader ==
  /\ pc = "fetching"
  /\ IF got # <<>> /\ got[1].at = 0
     THEN /\ pc' = "opening" /\ dest' = <<>>
          /\ opening' = [total |-> got[1].total, at |-> 0, idx |-> 0]
          /\ UNCHANGED <<up, got>>
     ELSE Ends /\ UNCHANGED dest
  /\ UNCHANGED <<env, object, past>>

OpenChunk ==
  /\ pc = "opening"
  /\ LET block == ReadFull(got, 1 + Len(dest) + opening.idx * Tag, Chunk + Tag)
         n     == Len(block) - Tag
         last  == IsLast(Len(dest), n, opening.total)
     IN IF Len(block) >= Tag /\ ~CounterSpent(opening.idx) /\ Opens(block, opening.idx, last)
        THEN LET out == dest \o Opened(block)
             IN /\ dest' = out
                /\ IF last /\ Len(out) = opening.total
                   THEN pc' = "restored" /\ UNCHANGED <<up, got, opening>>
                   ELSE IF last THEN Ends
                   ELSE opening' = [opening EXCEPT !.idx = @ + 1] /\ UNCHANGED <<pc, up, got>>
        ELSE Ends /\ UNCHANGED dest
  /\ UNCHANGED <<env, object, past>>

-----------------------------------------------------------------------------
(***************************************************************************)
(* The environment.                                                        *)
(***************************************************************************)
\* A request fails, the disk is full, or the program dies: nothing is retried.
Fails ==
  /\ pc \in Uploading \cup Downloading
  /\ faults < MaxFaults /\ faults' = faults + 1
  /\ Ends
  /\ UNCHANGED <<encrypted, file, edits, damages, object, dest, past>>

\* Somebody writes the file while it is read; at any other time it is just another file.
Edit ==
  /\ pc \in Uploading
  /\ edits < MaxEdits /\ edits' = edits + 1
  /\ file' \in Files \ {file}
  /\ touched' = TRUE
  /\ UNCHANGED <<encrypted, pc, up, object, down, faults, damages, asked, reading, sent>>

\* Only a sealed object is checked.  A stretch of it is lost, comes twice, or changes places with its neighbour.
Part(o, i, j) == SubSeq(o, i, j)
Stretches(o)  == {s \in (1..Len(o)) \X (1..Len(o)) : s[1] <= s[2]}
Damaged(o) ==
  LET before(s) == Part(o, 1, s[1] - 1)
      itself(s) == Part(o, s[1], s[2])
      next(s)   == Part(o, s[2] + 1, 2 * s[2] - s[1] + 1)
      after(s)  == Part(o, s[2] + 1, Len(o))
      swapped   == {s \in Stretches(o) : 2 * s[2] - s[1] + 1 <= Len(o)}
  IN {before(s) \o after(s) : s \in Stretches(o)}
       \cup {before(s) \o itself(s) \o itself(s) \o after(s) : s \in Stretches(o)}
       \cup {before(s) \o next(s) \o itself(s) \o Part(o, 2 * s[2] - s[1] + 2, Len(o)) : s \in swapped}

Damage ==
  /\ encrypted /\ pc = "stored" /\ damages < MaxDamage /\ damages' = damages + 1
  /\ object' \in Damaged(object)
  /\ UNCHANGED <<encrypted, file, edits, faults, pc, up, down, past>>

-----------------------------------------------------------------------------
Upload   == Begin \/ SealChunk \/ Dispatch \/ PutWhole \/ PutChunk
Download == Fetch \/ OpenHeader \/ OpenChunk

Next == Upload \/ Download \/ FetchBreaks \/ Fails \/ Edit \/ Damage

Spec == Init /\ [][Next]_vars

\* A transfer that is under way goes on, and one that ended is tried again.
FairSpec == Spec /\ WF_vars(Upload \/ Download)

-----------------------------------------------------------------------------
(***************************************************************************)
(* Properties.                                                             *)
(***************************************************************************)
(***************************************************************************)
(* What decrypt_file writes is what was read when the object was made, in  *)
(* order, and once it succeeds it is all of it: an object that lost a      *)
(* stretch, or has its chunks in another order, is never taken for the     *)
(* whole file (decrypt_file, build_nonce, chunk_aad).                      *)
(***************************************************************************)
RestoredIsWhole ==
  encrypted =>
    /\ pc = "opening"  => dest = SubSeq(sent, 1, Len(dest))
    /\ pc = "restored" => dest = sent

(***************************************************************************)
(* Why it holds, as an inductive invariant.  What was read is cut into one *)
(* piece for each chunk counter, of any length, for the file may shrink    *)
(* and grow under encrypt_file; every sealed unit, wherever it has got to, *)
(* carries the piece of its counter, and only the last piece says last.    *)
(***************************************************************************)
Units(s)   == {s[k] : k \in 1..Len(s)}
Sealed(us) == {u \in us : u.at # 0}
Cuts(s)    == {c \in [0..MaxIdx -> 0..Len(s)] :
                 c[0] = 0 /\ \A i \in 0..(MaxIdx - 1) : c[i] <= c[i + 1]}

CarriesItsPiece(u, s, c) ==
  /\ u.idx < MaxIdx
  /\ u.data = SubSeq(s, c[u.idx] + 1, c[u.idx + 1])
  /\ u.last => c[u.idx + 1] = Len(s)

UploadSealed ==
  \E c \in Cuts(reading) :
    /\ \A u \in Sealed(Units(temp) \cup Units(session.units)) : CarriesItsPiece(u, reading, c)
    /\ pc = "sealing" => /\ c[sealing.idx] = Len(reading)
                         /\ \A u \in Sealed(Units(temp)) : u.idx < sealing.idx /\ ~u.last

ObjectSealed ==
  \E c \in Cuts(sent) :
    /\ \A u \in Sealed(Units(object) \cup Units(got)) : CarriesItsPiece(u, sent, c)
    /\ pc = "opening" => dest = SubSeq(sent, 1, c[opening.idx])

SealInv ==
  encrypted => /\ pc \in Uploading => UploadSealed
               /\ pc \in {"stored"} \cup Downloading => ObjectSealed
               /\ pc = "restored" => dest = sent

(***************************************************************************)
(* A file that was left alone while it went up arrives as it was, whatever *)
(* its length has to do with the sizes of chunks and with the threshold of *)
(* the resumable upload, and after failed attempts (upload_via,            *)
(* resumable_upload, download_via).  A file that was written meanwhile may *)
(* leave an object that never decrypts.                                    *)
(***************************************************************************)
UntouchedFilesArrive ==
  pc = "idle" ~> (touched \/ damages > 0 \/ (pc = "restored" /\ dest = asked))

(***************************************************************************)
(* Every transfer comes to an end, also of a file that shrinks under it or *)
(* grows without bound (encrypt_file, resumable_upload).                   *)
(***************************************************************************)
TransfersEnd == pc \in Uploading \cup Downloading ~> pc \in {"idle", "stored", "restored"}
=============================================================================
