--------------------------- MODULE TransferProofs ---------------------------
(***************************************************************************)
(* What TLAPS proves of a transfer, for files, chunks, tags, thresholds    *)
(* and counters of every size, and however often files are written,        *)
(* requests fail and objects are damaged.                                  *)
(***************************************************************************)
EXTENDS Transfer, SequenceTheorems, TLAPS

Unit == [at : {0}, total : Nat]
          \cup [at : Nat \ {0}, idx : Nat, last : BOOLEAN, data : Seq(Byte)]

\* What an upload sends, and an object is made of.
Held == IF encrypted THEN Unit ELSE Byte

TransferTypes ==
  /\ encrypted \in BOOLEAN /\ file \in Files
  /\ pc \in {"idle", "stored", "restored"} \cup Uploading \cup Downloading
  /\ sealing \in Loop /\ opening \in Loop
  /\ session \in [total : Nat, at : Nat, units : Seq(Held)]
  /\ session.at = Len(session.units)
  /\ session.at < session.total \/ (session.at = 0 /\ session.total = 0)
  /\ pc \in {"idle", "sealing", "sending"} => session.units = <<>>
  /\ temp \in Seq(Unit) /\ got \in Seq(Unit)
  /\ pc \in {"idle", "stored"} \cup Uploading => got = <<>>
  /\ pc \in {"stored", "restored"} \cup Downloading => object \in Seq(Held)
  /\ reading \in Seq(Byte) /\ sent \in Seq(Byte) /\ dest \in Seq(Byte)

-----------------------------------------------------------------------------
(***************************************************************************)
(* Sequences and the units they are made of.                               *)
(***************************************************************************)
LEMMA UnitsWithin ==
  ASSUME NEW S, NEW s \in Seq(S)
  PROVE  Units(s) \subseteq S
BY ElementOfSeq DEF Units

LEMMA SeqOfUnits ==
  ASSUME NEW S, NEW s \in Seq(S)
  PROVE  s \in Seq(Units(s))
<1>1. Len(s) \in Nat /\ s \in [1..Len(s) -> Units(s)]
  BY LenProperties DEF Units
<1> QED
  BY <1>1, SeqDef

LEMMA PartFacts ==
  ASSUME NEW S, NEW s \in Seq(S), NEW m \in Nat \ {0}, NEW n \in Int, n <= Len(s)
  PROVE  SubSeq(s, m, n) \in Seq(S)
<1>1. \A i \in m..n : s[i] \in S
  BY LenProperties, ElementOfSeq
<1> QED
  BY <1>1, SubSeqProperties

\* A read finds what is in the file, or less.
LEMMA ReadFullFacts ==
  ASSUME NEW S, NEW s \in Seq(S), NEW at \in Nat, NEW n \in Nat
  PROVE  ReadFull(s, at, n) \in Seq(S)
<1> DEFINE end == IF at + n < Len(s) THEN at + n ELSE Len(s)
<1>1. end \in Int /\ end <= Len(s) /\ at + 1 \in Nat \ {0}
  BY LenProperties
<1>2. SubSeq(s, at + 1, end) \in Seq(S)
  BY <1>1, PartFacts
<1> QED
  BY <1>2 DEF ReadFull

LEMMA ReadUnits ==
  ASSUME NEW S, NEW s \in Seq(S), NEW at \in Nat, NEW n \in Nat
  PROVE  Units(ReadFull(s, at, n)) \subseteq Units(s)
<1>1. s \in Seq(Units(s))
  BY SeqOfUnits
<1>2. ReadFull(s, at, n) \in Seq(Units(s))
  BY <1>1, ReadFullFacts
<1> QED
  BY <1>2, UnitsWithin

LEMMA ConcatUnits ==
  ASSUME NEW S, NEW s \in Seq(S), NEW t \in Seq(S)
  PROVE  s \o t \in Seq(S) /\ Units(s \o t) \subseteq Units(s) \cup Units(t)
<1> DEFINE U == Units(s) \cup Units(t)
<1>1. s \in Seq(U) /\ t \in Seq(U)
  <2>1. s \in Seq(Units(s)) /\ t \in Seq(Units(t))
    BY SeqOfUnits
  <2>2. Units(s) \subseteq U /\ Units(t) \subseteq U
    OBVIOUS
  <2> HIDE DEF U
  <2> QED
    BY <2>1, <2>2, SeqMonotonic
<1>2. s \o t \in Seq(U)
  BY <1>1, ConcatProperties
<1> QED
  BY <1>2, UnitsWithin, ConcatProperties

LEMMA NoUnits == Units(<<>>) = {}
BY DEF Units

\* A sealed chunk is made of units that carry it.
LEMMA SealFacts ==
  ASSUME NEW idx \in Nat, NEW last \in BOOLEAN, NEW data \in Seq(Byte)
  PROVE  /\ Seal(idx, last, data) \in Seq(Unit)
         /\ \A u \in Units(Seal(idx, last, data)) :
              u.at # 0 /\ u.idx = idx /\ u.last = last /\ u.data = data
<1> DEFINE T == {[at |-> k, idx |-> idx, last |-> last, data |-> data] : k \in Nat \ {0}}
           n == Len(data) + Tag
<1>1. n \in Nat
  BY ChunkAssumption, LenProperties
<1>2. Seal(idx, last, data) \in [1..n -> T]
  BY <1>1 DEF Seal
<1>3. Seal(idx, last, data) \in Seq(T)
  BY <1>1, <1>2, SeqDef
<1>4. T \subseteq Unit
  BY DEF Unit
<1>5. \A u \in T : u.at # 0 /\ u.idx = idx /\ u.last = last /\ u.data = data
  OBVIOUS
<1> HIDE DEF T
<1>6. Seal(idx, last, data) \in Seq(Unit)
  BY <1>3, <1>4, SeqMonotonic
<1>7. Units(Seal(idx, last, data)) \subseteq T
  BY <1>3, UnitsWithin
<1> QED
  BY <1>5, <1>6, <1>7

LEMMA HeaderFacts ==
  ASSUME NEW n \in Nat
  PROVE  Header(n) \in Seq(Unit) /\ Sealed(Units(Header(n))) = {}
<1> DEFINE u == [at |-> 0, total |-> n]
<1>1. u \in Unit
  BY DEF Unit
<1>2. <<u>> \in Seq(Unit)
  BY <1>1
<1>3. Units(<<u>>) \subseteq {u}
  <2>1. <<u>> \in Seq({u})
    OBVIOUS
  <2> QED
    BY <2>1, UnitsWithin
<1>4. Header(n) = <<u>>
  BY DEF Header
<1> QED
  BY <1>2, <1>3, <1>4 DEF Sealed

\* Damage brings nothing into an object that was not in it.
LEMMA DamageFacts ==
  ASSUME NEW S, NEW o \in Seq(S), NEW d \in Damaged(o)
  PROVE  d \in Seq(S) /\ Units(d) \subseteq Units(o)
<1> DEFINE U == Units(o)
<1>1. o \in Seq(U) /\ Len(o) \in Nat
  BY SeqOfUnits, LenProperties
<1> HIDE DEF U
<1>2. PICK s \in Stretches(o) :
        \/ d = Part(o, 1, s[1] - 1) \o Part(o, s[2] + 1, Len(o))
        \/ d = Part(o, 1, s[1] - 1) \o Part(o, s[1], s[2]) \o Part(o, s[1], s[2])
                 \o Part(o, s[2] + 1, Len(o))
        \/ /\ 2 * s[2] - s[1] + 1 <= Len(o)
           /\ d = Part(o, 1, s[1] - 1) \o Part(o, s[2] + 1, 2 * s[2] - s[1] + 1)
                    \o Part(o, s[1], s[2]) \o Part(o, 2 * s[2] - s[1] + 2, Len(o))
  BY DEF Damaged
<1>3. /\ s[1] \in 1..Len(o) /\ s[2] \in 1..Len(o) /\ s[1] <= s[2]
  BY DEF Stretches
<1>4. /\ Part(o, 1, s[1] - 1) \in Seq(U) /\ Part(o, s[1], s[2]) \in Seq(U)
      /\ Part(o, s[2] + 1, Len(o)) \in Seq(U)
  BY <1>1, <1>3, PartFacts DEF Part
<1>5. ASSUME 2 * s[2] - s[1] + 1 <= Len(o)
      PROVE  /\ Part(o, s[2] + 1, 2 * s[2] - s[1] + 1) \in Seq(U)
             /\ Part(o, 2 * s[2] - s[1] + 2, Len(o)) \in Seq(U)
  BY <1>1, <1>3, <1>5, PartFacts DEF Part
<1>6. d \in Seq(U)
  <2>1. \A x, y, z \in Seq(U) : x \o y \o z \in Seq(U)
    BY ConcatProperties
  <2>2. \A x, y, z, w \in Seq(U) : x \o y \o z \o w \in Seq(U)
    BY <2>1, ConcatProperties
  <2>3. \A x, y \in Seq(U) : x \o y \in Seq(U)
    BY ConcatProperties
  <2>4. CASE d = Part(o, 1, s[1] - 1) \o Part(o, s[2] + 1, Len(o))
    BY <1>4, <2>3, <2>4
  <2>5. CASE d = Part(o, 1, s[1] - 1) \o Part(o, s[1], s[2]) \o Part(o, s[1], s[2])
                   \o Part(o, s[2] + 1, Len(o))
    BY <1>4, <2>2, <2>5
  <2>6. CASE /\ 2 * s[2] - s[1] + 1 <= Len(o)
             /\ d = Part(o, 1, s[1] - 1) \o Part(o, s[2] + 1, 2 * s[2] - s[1] + 1)
                      \o Part(o, s[1], s[2]) \o Part(o, 2 * s[2] - s[1] + 2, Len(o))
    BY <1>4, <1>5, <2>2, <2>6
  <2> QED
    BY <1>2, <2>4, <2>5, <2>6
<1>7. Units(d) \subseteq U
  BY <1>6, UnitsWithin
<1>8. U \subseteq S
  BY UnitsWithin DEF U
<1> QED
  BY <1>6, <1>7, <1>8, SeqMonotonic DEF U

-----------------------------------------------------------------------------
(***************************************************************************)
(* Types.                                                                  *)
(***************************************************************************)
LEMMA FileIsBytes == Files \subseteq Seq(Byte)
BY TransferAssumption

LEMMA SourceFacts ==
  ASSUME TransferTypes
  PROVE  Source \in Seq(Held) /\ Len(Source) \in Nat
<1>1. Source \in Seq(Held)
  BY FileIsBytes DEF TransferTypes, Source, Held
<1> QED
  BY <1>1, LenProperties

LEMMA EndsFacts ==
  ASSUME TransferTypes, Ends
  PROVE  /\ sealing' = NoLoop /\ opening' = NoLoop /\ temp' = <<>> /\ got' = <<>>
         /\ session' = [total |-> 0, at |-> 0, units |-> <<>>]
         /\ pc' = IF pc \in Uploading THEN "idle" ELSE "stored"
BY DEF Ends

LEMMA Empties == NoLoop \in Loop /\ \A S : <<>> \in Seq(S) /\ Len(<<>>) = 0
BY TransferAssumption, EmptySeq DEF NoLoop, Loop

SessionOK(s) ==
  /\ s \in [total : Nat, at : Nat, units : Seq(Held)]
  /\ s.at = Len(s.units)
  /\ s.at < s.total \/ (s.at = 0 /\ s.total = 0)

LEMMA SessionFacts ==
  ASSUME NEW t \in Nat, NEW u \in Seq(Held), Len(u) < t \/ (t = 0 /\ u = <<>>)
  PROVE  SessionOK([total |-> t, at |-> Len(u), units |-> u])
<1>1. Len(u) \in Nat
  BY LenProperties
<1>2. u = <<>> => Len(u) = 0
  BY Empties
<1> QED
  BY <1>1, <1>2 DEF SessionOK

LEMMA NoSession == SessionOK([total |-> 0, at |-> 0, units |-> <<>>])
<1>1. <<>> \in Seq(Held) /\ Len(<<>>) = 0
  BY Empties
<1> QED
  BY <1>1, SessionFacts

LEMMA EndsKeepsTypes ==
  ASSUME TransferTypes, Ends, UNCHANGED <<encrypted, object, dest, past>>, file' \in Files,
         pc \in Uploading \cup Downloading
  PROVE  TransferTypes'
<1>1. /\ pc' \in {"idle", "stored"}
      /\ pc' \in {"stored", "restored"} \cup Downloading => pc \in Downloading
  BY EndsFacts DEF Downloading
<1>2. SessionOK(session')
  BY EndsFacts, NoSession
<1> QED
  BY <1>1, <1>2, EndsFacts, Empties DEF TransferTypes, SessionOK, Held, past

LEMMA SealChunkKeepsTypes ==
  ASSUME TransferTypes, SealChunk
  PROVE  TransferTypes'
<1> DEFINE data == ReadFull(file, sealing.at, Chunk)
           last == IsLast(sealing.at, Len(data), sealing.total)
<1>1. data \in Seq(Byte) /\ last \in BOOLEAN /\ Len(data) \in Nat
  <2>1. file \in Seq(Byte) /\ sealing.at \in Nat /\ Chunk \in Nat
    BY FileIsBytes, ChunkAssumption DEF TransferTypes, Loop
  <2>2. data \in Seq(Byte)
    BY <2>1, ReadFullFacts
  <2> QED
    BY <2>2, LenProperties DEF IsLast
<1>2. CASE CounterSpent(sealing.idx)
  BY <1>2, EndsKeepsTypes DEF SealChunk, TransferTypes, env, Uploading
<1>3. CASE ~CounterSpent(sealing.idx)
  <2> HIDE DEF data, last
  <2>1. /\ temp' = temp \o Seal(sealing.idx, last, data)
        /\ sealing' = [sealing EXCEPT !.at = @ + Len(data), !.idx = @ + 1]
        /\ reading' = reading \o data
        /\ pc' \in {"sending", "sealing"}
        /\ UNCHANGED <<env, session, object, down, asked, touched, sent>>
    BY <1>3 DEF SealChunk, data, last
  <2>2. sealing.idx \in Nat /\ sealing' \in Loop
    <3>1. /\ sealing.total \in Nat /\ sealing.at \in Nat /\ sealing.idx \in 0..MaxIdx
          /\ sealing = [total |-> sealing.total, at |-> sealing.at, idx |-> sealing.idx]
      BY DEF TransferTypes, Loop
    <3>2. sealing.at + Len(data) \in Nat /\ sealing.idx + 1 \in 0..MaxIdx
      BY <1>1, <1>3, <3>1, TransferAssumption DEF CounterSpent
    <3>3. sealing' = [total |-> sealing.total, at |-> sealing.at + Len(data),
                      idx |-> sealing.idx + 1]
      BY <2>1, <3>1
    <3> QED
      BY <3>1, <3>2, <3>3 DEF Loop
  <2>3. temp' \in Seq(Unit)
    BY <1>1, <2>1, <2>2, SealFacts, ConcatProperties DEF TransferTypes
  <2>4. reading' \in Seq(Byte)
    BY <1>1, <2>1, ConcatProperties DEF TransferTypes
  <2>5. pc = "sealing"
    BY DEF SealChunk
  <2> QED
    BY <2>1, <2>2, <2>3, <2>4, <2>5 DEF TransferTypes, Uploading, Downloading, Held, env, down
<1> QED
  BY <1>2, <1>3

LEMMA PutChunkKeepsTypes ==
  ASSUME TransferTypes, PutChunk
  PROVE  TransferTypes'
<1> DEFINE units == ReadFull(Source, session.at, UploadChunk)
           end   == session.at + Len(units)
           all   == session.units \o units
<1>1. units \in Seq(Held) /\ Len(units) \in Nat
  <2>1. session.at \in Nat /\ UploadChunk \in Nat
    BY TransferAssumption DEF TransferTypes
  <2>2. units \in Seq(Held)
    BY <2>1, SourceFacts, ReadFullFacts
  <2> QED
    BY <2>2, LenProperties
<1>2. all \in Seq(Held) /\ Len(all) = end
  BY <1>1, ConcatProperties DEF TransferTypes
<1> HIDE DEF units
<1>3. pc \in Uploading /\ UNCHANGED env
  BY DEF PutChunk, Uploading
<1>4. CASE ReadsNothing(units) \/ end > session.total
  <2>1. Ends /\ UNCHANGED <<object, dest, past>>
    <3>1. end # session.total
      BY <1>1, <1>4, Empties DEF TransferTypes, PutChunk, ReadsNothing
    <3> QED
      BY <1>4, <3>1 DEF PutChunk, units
  <2> QED
    BY <1>3, <2>1, EndsKeepsTypes DEF TransferTypes, env
<1>5. CASE ~ReadsNothing(units) /\ end = session.total
  <2>1. /\ Stored(all) /\ session' = [total |-> 0, at |-> 0, units |-> <<>>]
        /\ UNCHANGED <<sealing, temp, down, asked, touched, reading>>
    <3>1. end \in Nat /\ ~(end > session.total)
      BY <1>1, <1>5 DEF TransferTypes
    <3> QED
      BY <1>5, <3>1 DEF PutChunk, units
  <2>2. sent' \in Seq(Byte) /\ object' \in Seq(Held)
    BY <1>2, <2>1 DEF Stored, TransferTypes, Held
  <2>3. SessionOK(session')
    BY <2>1, NoSession
  <2> QED
    BY <1>3, <2>1, <2>2, <2>3 DEF TransferTypes, SessionOK, Stored, Held, env, down
<1>6. CASE ~ReadsNothing(units) /\ end < session.total
  <2>1. /\ session' = [session EXCEPT !.at = end, !.units = all]
        /\ UNCHANGED <<pc, sealing, temp, object, down, past>>
    <3>1. end \in Nat /\ end # session.total /\ ~(end > session.total)
      BY <1>1, <1>6 DEF TransferTypes
    <3> QED
      BY <1>6, <3>1 DEF PutChunk, units
  <2>2. session' = [total |-> session.total, at |-> Len(all), units |-> all]
    BY <1>2, <2>1 DEF TransferTypes
  <2>3. SessionOK(session')
    BY <1>2, <1>6, <2>2, SessionFacts DEF TransferTypes
  <2> QED
    BY <1>3, <2>1, <2>3 DEF PutChunk, TransferTypes, SessionOK, Held, env, down, past
<1>7. end > session.total \/ end = session.total \/ end < session.total
  <2>1. session.total \in Nat /\ session.at \in Nat
    BY DEF TransferTypes
  <2> QED
    BY <1>1, <2>1
<1> QED
  BY <1>4, <1>5, <1>6, <1>7

\* What opens is one unit's worth of sealed data, from what was downloaded.
LEMMA OpenedFacts ==
  ASSUME NEW g \in Seq(Unit), NEW at \in Nat, NEW n \in Nat, NEW idx \in Nat,
         NEW last \in BOOLEAN, Opens(ReadFull(g, at, n), idx, last)
  PROVE  \E u \in Sealed(Units(g)) :
           /\ u \in Unit /\ u.idx = idx /\ u.last = last
           /\ u.data \in Seq(Byte) /\ u.data = Opened(ReadFull(g, at, n))
<1> DEFINE block == ReadFull(g, at, n)
<1>1. block \in Seq(Unit) /\ Units(block) \subseteq Units(g)
  BY ReadFullFacts, ReadUnits
<1> HIDE DEF block
<1>2. block # <<>> /\ block[1].at # 0 /\ block = Seal(idx, last, block[1].data)
  BY DEF Opens, block
<1>3. 1 \in 1..Len(block)
  BY <1>1, <1>2, EmptySeq
<1>4. block[1] \in Units(block)
  BY <1>3 DEF Units
<1>5. block[1] \in Unit
  BY <1>1, <1>3, ElementOfSeq
<1>6. block[1].data \in Seq(Byte)
  BY <1>2, <1>5 DEF Unit
<1>7. block[1].idx = idx /\ block[1].last = last
  BY <1>2, <1>4, <1>6, SealFacts
<1>8. Opened(block) = block[1].data
  BY DEF Opened
<1> QED
  BY <1>1, <1>2, <1>4, <1>5, <1>6, <1>7, <1>8 DEF Sealed, block

LEMMA ReadPlace ==
  ASSUME TransferTypes
  PROVE  Len(dest) \in Nat /\ 1 + Len(dest) + opening.idx * Tag \in Nat /\ Chunk + Tag \in Nat
<1>1. opening.idx \in Nat /\ Tag \in Nat /\ Chunk \in Nat /\ Len(dest) \in Nat
  BY ChunkAssumption, TransferAssumption, LenProperties DEF TransferTypes, Loop
<1>2. \A a, b \in Nat : a * b \in Nat
  OBVIOUS
<1> QED
  BY <1>1, <1>2

LEMMA OpenChunkKeepsTypes ==
  ASSUME TransferTypes, OpenChunk
  PROVE  TransferTypes'
<1> DEFINE block == ReadFull(got, 1 + Len(dest) + opening.idx * Tag, Chunk + Tag)
           last  == IsLast(Len(dest), Len(block) - Tag, opening.total)
           opens == Len(block) >= Tag /\ ~CounterSpent(opening.idx)
                      /\ Opens(block, opening.idx, last)
<1>1. /\ pc = "opening" /\ UNCHANGED <<encrypted, file, object, past>>
      /\ opening.idx \in Nat /\ last \in BOOLEAN
  BY DEF OpenChunk, env, TransferTypes, Loop, IsLast
<1>2. ASSUME opens
      PROVE  dest \o Opened(block) \in Seq(Byte)
  <2>1. got \in Seq(Unit) /\ dest \in Seq(Byte)
    BY DEF TransferTypes
  <2>2. Opened(block) \in Seq(Byte)
    BY <1>1, <1>2, <2>1, ReadPlace, OpenedFacts
  <2> QED
    BY <2>1, <2>2, ConcatProperties
<1>3. ASSUME opens
      PROVE  \/ dest' \in Seq(Byte) /\ pc' = "restored" /\ UNCHANGED <<up, got, opening>>
             \/ dest' \in Seq(Byte) /\ Ends
             \/ /\ dest' \in Seq(Byte) /\ UNCHANGED <<pc, up, got>>
                /\ opening' = [opening EXCEPT !.idx = @ + 1]
  <2> HIDE DEF block, last
  <2>1. LET out == dest \o Opened(block)
        IN /\ dest' = out
           /\ IF last /\ Len(out) = opening.total
              THEN pc' = "restored" /\ UNCHANGED <<up, got, opening>>
              ELSE IF last THEN Ends
              ELSE opening' = [opening EXCEPT !.idx = @ + 1] /\ UNCHANGED <<pc, up, got>>
    BY <1>3 DEF OpenChunk, block, last
  <2> QED
    BY <1>2, <1>3, <2>1
<1>4. ~opens => Ends /\ UNCHANGED dest
  BY DEF OpenChunk
<1>5. CASE Ends /\ dest' \in Seq(Byte)
  <2>1. pc' = "stored" /\ SessionOK(session')
    BY <1>1, <1>5, EndsFacts, NoSession DEF Uploading
  <2> QED
    BY <1>1, <1>5, <2>1, EndsFacts, Empties
       DEF TransferTypes, SessionOK, Held, past, Uploading, Downloading
<1>6. CASE dest' \in Seq(Byte) /\ pc' = "restored" /\ UNCHANGED <<up, got, opening>>
  BY <1>1, <1>6 DEF TransferTypes, Held, past, up, Uploading, Downloading
<1>7. ASSUME opens, dest' \in Seq(Byte), UNCHANGED <<pc, up, got>>,
             opening' = [opening EXCEPT !.idx = @ + 1]
      PROVE  TransferTypes'
  <2>1. /\ opening.total \in Nat /\ opening.at \in Nat /\ opening.idx \in 0..MaxIdx
        /\ opening = [total |-> opening.total, at |-> opening.at, idx |-> opening.idx]
    BY DEF TransferTypes, Loop
  <2>2. opening.idx + 1 \in 0..MaxIdx
    BY <1>7, <2>1, TransferAssumption DEF CounterSpent
  <2>3. opening' = [total |-> opening.total, at |-> opening.at, idx |-> opening.idx + 1]
    BY <1>7, <2>1
  <2>4. opening' \in Loop
    BY <2>1, <2>2, <2>3 DEF Loop
  <2> QED
    BY <1>1, <1>7, <2>4 DEF TransferTypes, Held, past, up
<1>8. dest \in Seq(Byte)
  BY DEF TransferTypes
<1> QED
  BY <1>3, <1>4, <1>5, <1>6, <1>7, <1>8

LEMMA BeginKeepsTypes ==
  ASSUME TransferTypes, Begin
  PROVE  TransferTypes'
<1>1. Len(file) \in Nat /\ Header(Len(file)) \in Seq(Unit)
  BY FileIsBytes, LenProperties, HeaderFacts DEF TransferTypes
<1>2. sealing' \in Loop
  BY <1>1, TransferAssumption DEF Begin, Loop
<1>3. pc = "idle" /\ pc' \in {"sealing", "sending"}
  BY DEF Begin
<1> QED
  BY <1>1, <1>2, <1>3, Empties DEF Begin, TransferTypes, Uploading, Downloading, Held, env, down

LEMMA DispatchKeepsTypes ==
  ASSUME TransferTypes, Dispatch
  PROVE  TransferTypes'
<1>1. pc = "sending" /\ pc' = "putting" /\ UNCHANGED <<env, sealing, temp, object, down, past>>
  BY DEF Dispatch
<1>2. ASSUME Len(Source) > Threshold,
             session' = [total |-> Len(Source), at |-> 0, units |-> <<>>]
      PROVE  SessionOK(session')
  <2>1. Len(Source) \in Nat /\ 0 < Len(Source) /\ <<>> \in Seq(Held) /\ Len(<<>>) = 0
    BY <1>2, SourceFacts, Empties, TransferAssumption
  <2>2. SessionOK([total |-> Len(Source), at |-> Len(<<>>), units |-> <<>>])
    BY <2>1, SessionFacts
  <2> QED
    BY <1>2, <2>1, <2>2
<1>3. SessionOK(session')
  <2>1. CASE UNCHANGED session
    BY <2>1 DEF SessionOK, TransferTypes, Held
  <2> QED
    BY <1>2, <2>1 DEF Dispatch
<1> QED
  BY <1>1, <1>3 DEF TransferTypes, SessionOK, Uploading, Downloading, Held, env, down, past

LEMMA OpenHeaderKeepsTypes ==
  ASSUME TransferTypes, OpenHeader
  PROVE  TransferTypes'
<1>1. pc = "fetching" /\ UNCHANGED <<env, object, past>>
  BY DEF OpenHeader
<1>2. CASE got # <<>> /\ got[1].at = 0
  <2>1. got[1] \in Unit
    BY <1>2, EmptySeq, ElementOfSeq DEF TransferTypes
  <2>2. got[1].total \in Nat
    BY <1>2, <2>1 DEF Unit
  <2>3. opening' \in Loop
    BY <1>2, <2>2, TransferAssumption DEF OpenHeader, Loop
  <2> QED
    BY <1>1, <1>2, <2>3, Empties
       DEF OpenHeader, TransferTypes, Uploading, Downloading, Held, env, up, past
<1>3. CASE ~(got # <<>> /\ got[1].at = 0)
  BY <1>1, <1>3, EndsKeepsTypes DEF OpenHeader, TransferTypes, env, Downloading
<1> QED
  BY <1>2, <1>3

LEMMA TypesStep == TransferTypes /\ [Next]_vars => TransferTypes'
<1> SUFFICES ASSUME TransferTypes, [Next]_vars PROVE TransferTypes'
  OBVIOUS
<1>1. CASE PutWhole
  <2>1. sent' \in Seq(Byte) /\ object' \in Seq(Held)
    BY <1>1, SourceFacts DEF PutWhole, Stored, TransferTypes, Held
  <2> QED
    BY <1>1, <2>1
       DEF PutWhole, Stored, TransferTypes, Uploading, Downloading, Held, env, up, down
<1>2. CASE Fetch
  BY <1>2 DEF Fetch, TransferTypes, Uploading, Downloading, Held, env, up, past
<1>3. CASE FetchBreaks
  <2>1. dest' \in Seq(Byte)
    <3>1. CASE ~encrypted
      <4>1. object \in Seq(Byte) /\ Len(object) \in Nat
        BY <1>3, <3>1, LenProperties DEF FetchBreaks, TransferTypes, Held
      <4>2. PICK n \in 0..Len(object) : dest' = SubSeq(object, 1, n)
        BY <1>3, <3>1 DEF FetchBreaks
      <4> QED
        BY <4>1, <4>2, PartFacts
    <3> QED
      BY <1>3, <3>1 DEF FetchBreaks, TransferTypes
  <2> QED
    BY <1>3, <2>1 DEF FetchBreaks, TransferTypes, Held, up, past
<1>4. CASE Fails
  BY <1>4, EndsKeepsTypes DEF Fails, TransferTypes
<1>5. CASE Edit
  BY <1>5 DEF Edit, TransferTypes, Held, up, down
<1>6. CASE Damage
  <2>1. object' \in Seq(Unit)
    BY <1>6, DamageFacts DEF Damage, TransferTypes, Held
  <2> QED
    BY <1>6, <2>1 DEF Damage, TransferTypes, Held, up, down, past
<1>7. CASE UNCHANGED vars
  BY <1>7 DEF TransferTypes, Held, vars, up, down, past
<1> QED
  BY <1>1, <1>2, <1>3, <1>4, <1>5, <1>6, <1>7, BeginKeepsTypes, SealChunkKeepsTypes,
     DispatchKeepsTypes, PutChunkKeepsTypes, OpenHeaderKeepsTypes, OpenChunkKeepsTypes
     DEF Next, Upload, Download

LEMMA TypesHold == Spec => []TransferTypes
<1>1. Init => TransferTypes
  <2> SUFFICES ASSUME Init PROVE TransferTypes
    OBVIOUS
  <2>1. SessionOK(session)
    BY NoSession DEF Init
  <2> QED
    BY <2>1, Empties DEF Init, TransferTypes, SessionOK, Uploading, Downloading
<1> QED
  BY <1>1, TypesStep, PTL DEF Spec

(***************************************************************************)
(* Sizes, counters and the session stay what they are declared to be, the  *)
(* chunk counter within its width, whatever the file does meanwhile        *)
(* (encrypt_file, decrypt_file, resumable_upload).                         *)
(***************************************************************************)
THEOREM TransferTypeTheorem == Spec => []TransferTypeOK
<1>1. TransferTypes => TransferTypeOK
  <2> SUFFICES ASSUME TransferTypes PROVE TransferTypeOK
    OBVIOUS
  <2>1. session.total \in Nat /\ session.at \in Nat
    BY DEF TransferTypes
  <2> QED
    BY <2>1 DEF TransferTypes, TransferTypeOK
<1> QED
  BY <1>1, TypesHold, PTL

-----------------------------------------------------------------------------
(***************************************************************************)
(* The pieces of what was read.                                            *)
(***************************************************************************)
LEMMA PrefixPart ==
  ASSUME NEW S, NEW s \in Seq(S), NEW t \in Seq(S), NEW m \in Nat \ {0}, NEW n \in Nat,
         n <= Len(s)
  PROVE  SubSeq(s \o t, m, n) = SubSeq(s, m, n)
<1>1. CASE n < m
  BY <1>1, SubSeqEmpty
<1>2. CASE m <= n
  <2>1. m \in 1..Len(s) /\ n \in 1..Len(s)
    BY <1>2, LenProperties
  <2> QED
    BY <2>1, SubSeqOfConcat1
<1> QED
  BY <1>1, <1>2

LEMMA SuffixPart ==
  ASSUME NEW S, NEW s \in Seq(S), NEW t \in Seq(S)
  PROVE  SubSeq(s \o t, Len(s) + 1, Len(s \o t)) = t
<1>1. Len(s) \in Nat /\ Len(t) \in Nat /\ Len(s \o t) = Len(s) + Len(t)
  BY LenProperties, ConcatProperties
<1>2. CASE Len(t) = 0
  <2>1. t = <<>>
    BY <1>2, EmptySeq
  <2>2. SubSeq(s \o t, Len(s) + 1, Len(s \o t)) = <<>>
    BY <1>1, <1>2, SubSeqEmpty
  <2> QED
    BY <2>1, <2>2
<1>3. CASE Len(t) > 0
  <2>1. /\ Len(s) + 1 \in Len(s) + 1..Len(s) + Len(t)
        /\ Len(s) + Len(t) \in Len(s) + 1..Len(s) + Len(t)
    BY <1>1, <1>3
  <2>2. SubSeq(s \o t, Len(s) + 1, Len(s) + Len(t))
          = SubSeq(t, (Len(s) + 1) - Len(s), (Len(s) + Len(t)) - Len(s))
    BY <2>1, SubSeqOfConcat2
  <2>3. (Len(s) + 1) - Len(s) = 1 /\ (Len(s) + Len(t)) - Len(s) = Len(t)
    BY <1>1
  <2> QED
    BY <1>1, <2>2, <2>3, SubSeqFull
<1> QED
  BY <1>1, <1>2, <1>3

\* One piece after another makes a longer beginning.
LEMMA NextPiece ==
  ASSUME NEW S, NEW s \in Seq(S), NEW k \in 0..Len(s), NEW n \in k..Len(s)
  PROVE  SubSeq(s, 1, k) \o SubSeq(s, k + 1, n) = SubSeq(s, 1, n)
<1>1. Len(s) \in Nat
  BY LenProperties
<1>2. 1 \in 1..Len(s) + 1 /\ k \in 1 - 1..Len(s)
  BY <1>1
<1> QED
  BY <1>2, ConcatAdjacentSubSeq

LEMMA CutFacts ==
  ASSUME NEW s \in Seq(Byte), NEW c \in Cuts(s), NEW i \in Nat, i < MaxIdx
  PROVE  /\ c[0] = 0 /\ c[i] \in 0..Len(s) /\ c[i + 1] \in c[i]..Len(s)
         /\ c[i + 1] \in 0..Len(s)
<1>1. MaxIdx \in Nat /\ Len(s) \in Nat
  BY TransferAssumption, LenProperties
<1>2. i \in 0..MaxIdx /\ i + 1 \in 0..MaxIdx /\ i \in 0..(MaxIdx - 1)
  BY <1>1
<1>3. c[i] \in 0..Len(s) /\ c[i + 1] \in 0..Len(s) /\ c[i] <= c[i + 1] /\ c[0] = 0
  BY <1>2 DEF Cuts
<1> QED
  BY <1>1, <1>3

\* A piece stays where it is when more is read.
LEMMA PieceStays ==
  ASSUME NEW s \in Seq(Byte), NEW t \in Seq(Byte), NEW c \in Cuts(s), NEW i \in Nat, i < MaxIdx
  PROVE  SubSeq(s \o t, c[i] + 1, c[i + 1]) = SubSeq(s, c[i] + 1, c[i + 1])
<1>1. Len(s) \in Nat /\ c[i] \in 0..Len(s) /\ c[i + 1] \in 0..Len(s)
  BY CutFacts, LenProperties
<1>2. c[i] + 1 \in Nat \ {0} /\ c[i + 1] \in Nat /\ c[i + 1] <= Len(s)
  BY <1>1
<1> QED
  BY <1>2, PrefixPart

\* The cut after one more chunk has been read.
Extended(c, i, n) == [j \in 0..MaxIdx |-> IF j <= i THEN c[j] ELSE n]

LEMMA ExtendedCuts ==
  ASSUME NEW s \in Seq(Byte), NEW t \in Seq(Byte), NEW c \in Cuts(s), NEW i \in 0..MaxIdx
  PROVE  Extended(c, i, Len(s \o t)) \in Cuts(s \o t)
<1> DEFINE e == Extended(c, i, Len(s \o t))
<1>1. /\ MaxIdx \in Nat /\ Len(s) \in Nat /\ Len(s \o t) \in Nat /\ Len(s) <= Len(s \o t)
  BY TransferAssumption, LenProperties, ConcatProperties
<1>2. \A j \in 0..MaxIdx : c[j] \in 0..Len(s)
  BY DEF Cuts
<1>3. \A j \in 0..(MaxIdx - 1) : c[j] <= c[j + 1]
  BY DEF Cuts
<1>4. e \in [0..MaxIdx -> 0..Len(s \o t)]
  BY <1>1, <1>2 DEF Extended
<1>5. e[0] = 0
  BY <1>1 DEF Extended, Cuts
<1>6. ASSUME NEW j \in 0..(MaxIdx - 1) PROVE e[j] <= e[j + 1]
  <2>1. j \in 0..MaxIdx /\ j + 1 \in 0..MaxIdx
    BY <1>1
  <2> QED
    BY <1>1, <1>2, <1>3, <2>1 DEF Extended
<1> QED
  BY <1>4, <1>5, <1>6 DEF Cuts

-----------------------------------------------------------------------------
(***************************************************************************)
(* Sealed units keep their pieces.                                         *)
(***************************************************************************)
LEMMA SealedFacts ==
  ASSUME NEW us, us \subseteq Unit, NEW u \in Sealed(us)
  PROVE  u.idx \in Nat /\ u.last \in BOOLEAN /\ u.data \in Seq(Byte)
BY DEF Sealed, Unit

LEMMA SealChunkKeepsPieces ==
  ASSUME TransferTypes, SealInv, encrypted, SealChunk, ~CounterSpent(sealing.idx)
  PROVE  UploadSealed'
<1> DEFINE data == ReadFull(file, sealing.at, Chunk)
           last == IsLast(sealing.at, Len(data), sealing.total)
           i    == sealing.idx
           n    == Len(reading \o data)
<1>1. data \in Seq(Byte) /\ last \in BOOLEAN
  <2>1. file \in Seq(Byte) /\ sealing.at \in Nat /\ Chunk \in Nat
    BY FileIsBytes, ChunkAssumption DEF TransferTypes, Loop
  <2>2. data \in Seq(Byte)
    BY <2>1, ReadFullFacts
  <2>3. last \in BOOLEAN
    BY DEF IsLast
  <2> QED
    BY <2>2, <2>3
<1> HIDE DEF data, last
<1>2. /\ temp' = temp \o Seal(i, last, data) /\ reading' = reading \o data
      /\ pc' = (IF last THEN "sending" ELSE "sealing")
      /\ sealing' = [sealing EXCEPT !.at = @ + Len(data), !.idx = @ + 1]
      /\ UNCHANGED session /\ pc = "sealing"
  BY DEF SealChunk, data, last
<1>3. i \in 0..MaxIdx /\ i < MaxIdx /\ i \in Nat /\ i + 1 \in 0..MaxIdx /\ MaxIdx \in Nat
  <2>1. sealing.idx \in 0..MaxIdx /\ sealing.idx # MaxIdx /\ MaxIdx \in Nat
    BY TransferAssumption DEF TransferTypes, Loop, CounterSpent
  <2> QED
    BY <2>1
<1>4. sealing'.idx = i + 1
  BY <1>2 DEF TransferTypes, Loop
<1>5. PICK c \in Cuts(reading) :
        /\ \A u \in Sealed(Units(temp) \cup Units(session.units)) :
             CarriesItsPiece(u, reading, c)
        /\ c[i] = Len(reading)
        /\ \A u \in Sealed(Units(temp)) : u.idx < i /\ ~u.last
  BY <1>2 DEF SealInv, Uploading, UploadSealed
<1> DEFINE e == Extended(c, i, n)
<1>6. reading \in Seq(Byte) /\ temp \in Seq(Unit) /\ session.units = <<>>
  BY <1>2 DEF TransferTypes
<1>7. e \in Cuts(reading')
  BY <1>1, <1>2, <1>3, <1>6, ExtendedCuts
<1>8. e[i] = c[i] /\ e[i + 1] = n /\ n = Len(reading')
  BY <1>2, <1>3 DEF Extended
<1>9. \A j \in Nat : j < i => e[j] = c[j] /\ e[j + 1] = c[j + 1]
  BY <1>3 DEF Extended
<1> HIDE DEF e, n
<1>10. Units(temp') \subseteq Units(temp) \cup Units(Seal(i, last, data))
  BY <1>1, <1>2, <1>3, <1>6, SealFacts, ConcatUnits
<1>11. ASSUME NEW u \in Sealed(Units(temp))
       PROVE  CarriesItsPiece(u, reading', e) /\ u.idx < i /\ ~u.last
  <2>1. u.idx \in Nat /\ u.idx < i /\ ~u.last
    BY <1>5, <1>6, SealedFacts, UnitsWithin
  <2>2. u.data = SubSeq(reading, c[u.idx] + 1, c[u.idx + 1]) /\ u.idx < MaxIdx
    BY <1>5 DEF Sealed, CarriesItsPiece
  <2>3. u.data = SubSeq(reading \o data, c[u.idx] + 1, c[u.idx + 1])
    BY <1>1, <1>6, <2>1, <2>2, PieceStays
  <2> QED
    BY <1>2, <1>9, <2>1, <2>2, <2>3 DEF CarriesItsPiece
<1>12. ASSUME NEW u \in Units(Seal(i, last, data))
       PROVE  CarriesItsPiece(u, reading', e) /\ u.idx = i /\ u.last = last
  <2>1. u.idx = i /\ u.last = last /\ u.data = data
    BY <1>1, <1>3, SealFacts
  <2>2. data = SubSeq(reading \o data, Len(reading) + 1, Len(reading \o data))
    BY <1>1, <1>6, SuffixPart
  <2>3. data = SubSeq(reading', e[i] + 1, e[i + 1])
    BY <1>2, <1>5, <1>8, <2>2
  <2> QED
    BY <1>3, <1>8, <2>1, <2>3 DEF CarriesItsPiece
<1>13. \A u \in Sealed(Units(temp') \cup Units(session'.units)) : CarriesItsPiece(u, reading', e)
  BY <1>2, <1>6, <1>10, <1>11, <1>12, NoUnits DEF Sealed
<1>14. pc' = "sealing" => \A u \in Sealed(Units(temp')) : u.idx < sealing'.idx /\ ~u.last
  <2>1. i < i + 1 /\ \A j \in Nat : j < i => j < i + 1
    BY <1>3
  <2>2. ASSUME NEW u \in Sealed(Units(temp)) PROVE u.idx \in Nat
    BY <1>6, <2>2, SealedFacts, UnitsWithin
  <2> QED
    BY <1>2, <1>4, <1>10, <1>11, <1>12, <2>1, <2>2 DEF Sealed
<1> QED
  BY <1>4, <1>7, <1>8, <1>13, <1>14 DEF UploadSealed

\* Every other step of an upload only moves sealed units along.
LEMMA SendingKeepsPieces ==
  ASSUME TransferTypes, SealInv, encrypted, pc \in Uploading, pc' \in {"sending", "putting"},
         UNCHANGED <<temp, reading>>,
         Units(session'.units) \subseteq Units(session.units) \cup Units(temp)
  PROVE  UploadSealed'
<1>1. PICK c \in Cuts(reading) :
        \A u \in Sealed(Units(temp) \cup Units(session.units)) : CarriesItsPiece(u, reading, c)
  BY DEF SealInv, UploadSealed
<1>2. Sealed(Units(temp') \cup Units(session'.units))
        \subseteq Sealed(Units(temp) \cup Units(session.units))
  BY DEF Sealed
<1>3. \A u \in Sealed(Units(temp') \cup Units(session'.units)) : CarriesItsPiece(u, reading', c)
  BY <1>1, <1>2
<1>4. c \in Cuts(reading') /\ pc' # "sealing"
  BY <1>1
<1> QED
  BY <1>3, <1>4 DEF UploadSealed

LEMMA StoredKeepsPieces ==
  ASSUME TransferTypes, SealInv, encrypted, pc \in Uploading, NEW us, Stored(us),
         Units(us) \subseteq Units(session.units) \cup Units(temp), UNCHANGED got
  PROVE  ObjectSealed' /\ pc' = "stored"
<1>1. PICK c \in Cuts(reading) :
        \A u \in Sealed(Units(temp) \cup Units(session.units)) : CarriesItsPiece(u, reading, c)
  BY DEF SealInv, UploadSealed
<1>2. sent' = reading /\ object' = us /\ pc' = "stored"
  BY DEF Stored
<1>3. Units(got') = {}
  BY NoUnits DEF TransferTypes
<1>4. Sealed(Units(object') \cup Units(got'))
        \subseteq Sealed(Units(temp) \cup Units(session.units))
  BY <1>2, <1>3 DEF Sealed
<1>5. \A u \in Sealed(Units(object') \cup Units(got')) : CarriesItsPiece(u, sent', c)
  BY <1>1, <1>2, <1>4
<1>6. c \in Cuts(sent')
  BY <1>1, <1>2
<1> QED
  BY <1>2, <1>5, <1>6 DEF ObjectSealed

\* An object that is not opened yet keeps its pieces when units are lost or copied.
LEMMA ObjectKeepsPieces ==
  ASSUME SealInv, encrypted, pc \in {"stored"} \cup Downloading, pc' # "opening",
         UNCHANGED sent,
         Units(object') \cup Units(got') \subseteq Units(object) \cup Units(got)
  PROVE  ObjectSealed'
<1>1. PICK c \in Cuts(sent) :
        \A u \in Sealed(Units(object) \cup Units(got)) : CarriesItsPiece(u, sent, c)
  BY DEF SealInv, ObjectSealed
<1>2. Sealed(Units(object') \cup Units(got')) \subseteq Sealed(Units(object) \cup Units(got))
  BY DEF Sealed
<1>3. \A u \in Sealed(Units(object') \cup Units(got')) : CarriesItsPiece(u, sent', c)
  BY <1>1, <1>2
<1> QED
  BY <1>1, <1>3 DEF ObjectSealed

LEMMA EndsKeepsPieces ==
  ASSUME TransferTypes, SealInv, encrypted, pc \in Uploading \cup Downloading, Ends,
         UNCHANGED <<encrypted, object, sent>>
  PROVE  SealInv'
<1>1. CASE pc \in Uploading
  <2>1. pc' = "idle"
    BY <1>1, EndsFacts
  <2> QED
    BY <2>1 DEF SealInv, Uploading, Downloading
<1>2. CASE pc \notin Uploading
  <2>1. pc' = "stored" /\ got' = <<>>
    BY <1>2, EndsFacts
  <2>2. ObjectSealed'
    BY <1>2, <2>1, NoUnits, ObjectKeepsPieces
  <2> QED
    BY <2>1, <2>2 DEF SealInv, Uploading
<1> QED
  BY <1>1, <1>2

LEMMA BeginKeepsPieces ==
  ASSUME TransferTypes, Begin, encrypted
  PROVE  SealInv'
<1>1. pc' = "sealing" /\ reading' = <<>> /\ sealing'.idx = 0 /\ session' = session
      /\ temp' = Header(Len(file)) /\ session.units = <<>>
  BY DEF Begin, TransferTypes
<1>2. Len(file) \in Nat
  BY FileIsBytes, LenProperties DEF TransferTypes
<1>3. Sealed(Units(temp')) = {} /\ Sealed(Units(temp') \cup Units(session'.units)) = {}
  BY <1>1, <1>2, HeaderFacts, NoUnits DEF Sealed
<1> DEFINE c == [i \in 0..MaxIdx |-> 0]
<1>4. MaxIdx \in Nat /\ Len(<<>>) = 0
  BY TransferAssumption, Empties
<1>5. c \in [0..MaxIdx -> 0..0] /\ c[0] = 0
  BY <1>4
<1>6. \A i \in 0..(MaxIdx - 1) : c[i] <= c[i + 1]
  BY <1>4
<1>7. c \in Cuts(reading') /\ c[sealing'.idx] = Len(reading')
  BY <1>1, <1>4, <1>5, <1>6 DEF Cuts
<1>8. UploadSealed'
  <2> HIDE DEF c
  <2> QED
    BY <1>3, <1>7 DEF UploadSealed
<1> QED
  BY <1>1, <1>8 DEF SealInv, Uploading, Downloading

LEMMA PutChunkKeepsPieces ==
  ASSUME TransferTypes, SealInv, PutChunk, encrypted
  PROVE  SealInv'
<1> DEFINE units == ReadFull(Source, session.at, UploadChunk)
           end   == session.at + Len(units)
           all   == session.units \o units
<1>1. Source = temp /\ pc = "putting" /\ UNCHANGED <<encrypted, got>>
      /\ temp \in Seq(Unit) /\ session.units \in Seq(Unit)
      /\ session.at \in Nat /\ UploadChunk \in Nat
  <2>1. UNCHANGED <<encrypted, got>>
    BY DEF PutChunk, env, down, Ends, TransferTypes, Uploading
  <2> QED
    BY <2>1, TransferAssumption DEF PutChunk, Source, TransferTypes, Held
<1>2. units \in Seq(Unit) /\ Units(units) \subseteq Units(temp)
  BY <1>1, ReadFullFacts, ReadUnits
<1> HIDE DEF units
<1>3. Units(all) \subseteq Units(session.units) \cup Units(temp)
  BY <1>1, <1>2, ConcatUnits
<1>4. CASE Ends /\ UNCHANGED <<object, dest, past>>
  BY <1>1, <1>4, EndsKeepsPieces DEF past, Uploading
<1>5. CASE Stored(all)
  <2>1. ObjectSealed' /\ pc' = "stored"
    BY <1>1, <1>3, <1>5, StoredKeepsPieces DEF Uploading
  <2> QED
    BY <2>1 DEF SealInv, Uploading
<1>6. CASE /\ session' = [session EXCEPT !.at = end, !.units = all]
           /\ UNCHANGED <<pc, sealing, temp, object, down, past>>
  <2>1. session'.units = all
    BY <1>6 DEF TransferTypes
  <2>2. UploadSealed'
    BY <1>1, <1>3, <1>6, <2>1, SendingKeepsPieces DEF Uploading, past
  <2> QED
    BY <1>1, <1>6, <2>2 DEF SealInv, Uploading, Downloading
<1>7. Len(units) \in Nat /\ session.total \in Nat
      /\ (session.at < session.total)
  BY <1>2, LenProperties DEF PutChunk, TransferTypes
<1>8. ReadsNothing(units) => end # session.total
  BY <1>1, <1>7, Empties DEF ReadsNothing
<1>9. end > session.total \/ end = session.total \/ end < session.total
  BY <1>1, <1>7
<1>10. CASE ReadsNothing(units) \/ end > session.total
  <2>1. end # session.total
    BY <1>1, <1>7, <1>8, <1>10
  <2>2. Ends /\ UNCHANGED <<object, dest, past>>
    BY <1>10, <2>1 DEF PutChunk, units
  <2> QED
    BY <1>4, <2>2
<1>11. CASE ~ReadsNothing(units) /\ end = session.total
  <2>1. ~(end > session.total)
    BY <1>1, <1>7, <1>11
  <2>2. Stored(all)
    BY <1>11, <2>1 DEF PutChunk, units
  <2> QED
    BY <1>5, <2>2
<1>12. CASE ~ReadsNothing(units) /\ end < session.total
  <2>1. ~(end > session.total) /\ end # session.total
    BY <1>1, <1>7, <1>12
  <2>2. /\ session' = [session EXCEPT !.at = end, !.units = all]
        /\ UNCHANGED <<pc, sealing, temp, object, down, past>>
    BY <1>12, <2>1 DEF PutChunk, units
  <2> QED
    BY <1>6, <2>2
<1> QED
  BY <1>9, <1>10, <1>11, <1>12

LEMMA OpenChunkKeepsPieces ==
  ASSUME TransferTypes, SealInv, OpenChunk, encrypted
  PROVE  SealInv'
<1> DEFINE block == ReadFull(got, 1 + Len(dest) + opening.idx * Tag, Chunk + Tag)
           last  == IsLast(Len(dest), Len(block) - Tag, opening.total)
           opens == Len(block) >= Tag /\ ~CounterSpent(opening.idx)
                      /\ Opens(block, opening.idx, last)
           i     == opening.idx
<1>1. /\ pc = "opening" /\ UNCHANGED <<encrypted, object, sent>>
      /\ last \in BOOLEAN /\ got \in Seq(Unit) /\ sent \in Seq(Byte)
  BY DEF OpenChunk, env, past, TransferTypes, IsLast
<1>2. i \in Nat /\ i \in 0..MaxIdx /\ MaxIdx \in Nat
  BY TransferAssumption DEF TransferTypes, Loop
<1>3. PICK c \in Cuts(sent) :
        /\ \A u \in Sealed(Units(object) \cup Units(got)) : CarriesItsPiece(u, sent, c)
        /\ dest = SubSeq(sent, 1, c[i])
  BY <1>1 DEF SealInv, ObjectSealed, Downloading
<1>4. CASE ~opens
  <2>1. Ends
    BY <1>4 DEF OpenChunk
  <2> QED
    BY <1>1, <2>1, EndsKeepsPieces DEF Downloading
<1>5. CASE opens
  <2>1. i < MaxIdx
    BY <1>2, <1>5 DEF CounterSpent
  <2>2. PICK u \in Sealed(Units(got)) :
          u.idx = i /\ u.last = last /\ u.data = Opened(block)
    <3> DEFINE at == 1 + Len(dest) + opening.idx * Tag
               n  == Chunk + Tag
    <3>1. at \in Nat /\ n \in Nat
      BY ReadPlace
    <3>2. Opens(ReadFull(got, at, n), i, last)
      BY <1>5
    <3> HIDE DEF at, n, last, i
    <3>3. \E u \in Sealed(Units(got)) :
            u.idx = i /\ u.last = last /\ u.data = Opened(ReadFull(got, at, n))
      BY <1>1, <1>2, <3>1, <3>2, OpenedFacts
    <3> QED
      BY <3>3 DEF at, n
  <2>3. CarriesItsPiece(u, sent, c)
    BY <1>3 DEF Sealed
  <2>4. /\ dest \o Opened(block) = SubSeq(sent, 1, c[i + 1])
        /\ last => c[i + 1] = Len(sent)
    <3>1. c[i] \in 0..Len(sent) /\ c[i + 1] \in c[i]..Len(sent)
      BY <1>1, <1>2, <2>1, CutFacts
    <3>2. Opened(block) = SubSeq(sent, c[i] + 1, c[i + 1])
      BY <2>2, <2>3 DEF CarriesItsPiece
    <3>3. SubSeq(sent, 1, c[i]) \o SubSeq(sent, c[i] + 1, c[i + 1]) = SubSeq(sent, 1, c[i + 1])
      BY <1>1, <3>1, NextPiece
    <3>4. last => c[i + 1] = Len(sent)
      BY <2>2, <2>3 DEF CarriesItsPiece
    <3> QED
      BY <1>3, <3>2, <3>3, <3>4
  <2> HIDE DEF block, last
  <2>5. LET out == dest \o Opened(block)
        IN /\ dest' = out
           /\ IF last /\ Len(out) = opening.total
              THEN pc' = "restored" /\ UNCHANGED <<up, got, opening>>
              ELSE IF last THEN Ends
              ELSE opening' = [opening EXCEPT !.idx = @ + 1] /\ UNCHANGED <<pc, up, got>>
    BY <1>5 DEF OpenChunk, block, last
  <2>6. CASE last /\ pc' = "restored"
    <3>1. dest' = sent'
      BY <1>1, <2>4, <2>5, <2>6, SubSeqFull
    <3> QED
      BY <2>6, <3>1 DEF SealInv, Uploading, Downloading
  <2>7. CASE Ends
    BY <1>1, <2>7, EndsKeepsPieces DEF Downloading
  <2>8. CASE opening' = [opening EXCEPT !.idx = @ + 1] /\ UNCHANGED <<pc, up, got>>
    <3>1. opening'.idx = i + 1
      BY <2>8 DEF TransferTypes, Loop
    <3>2. dest' = SubSeq(sent', 1, c[opening'.idx])
      BY <1>1, <2>4, <2>5, <3>1
    <3>3. \A v \in Sealed(Units(object') \cup Units(got')) : CarriesItsPiece(v, sent', c)
      BY <1>1, <1>3, <2>8
    <3>4. ObjectSealed'
      BY <1>1, <3>2, <3>3 DEF ObjectSealed
    <3> QED
      BY <1>1, <2>8, <3>4 DEF SealInv, Uploading, Downloading
  <2> QED
    BY <2>5, <2>6, <2>7, <2>8
<1> QED
  BY <1>4, <1>5

LEMMA SealStep == TransferTypes /\ SealInv /\ [Next]_vars => SealInv'
<1> SUFFICES ASSUME TransferTypes, SealInv, [Next]_vars PROVE SealInv'
  OBVIOUS
<1>1. UNCHANGED encrypted
  BY DEF Next, Upload, Download, Begin, SealChunk, Dispatch, PutWhole, PutChunk, Fetch,
     OpenHeader, OpenChunk, FetchBreaks, Fails, Edit, Damage, env, vars
<1> SUFFICES ASSUME encrypted PROVE SealInv'
  BY <1>1 DEF SealInv
<1>2. CASE SealChunk
  <2>1. CASE CounterSpent(sealing.idx)
    BY <1>1, <1>2, <2>1, EndsKeepsPieces DEF SealChunk, past, Uploading
  <2>2. CASE ~CounterSpent(sealing.idx)
    <3>1. UploadSealed' /\ pc' \in {"sending", "sealing"}
      BY <1>2, <2>2, SealChunkKeepsPieces DEF SealChunk
    <3> QED
      BY <3>1 DEF SealInv, Uploading, Downloading
  <2> QED
    BY <2>1, <2>2
<1>3. CASE Dispatch
  <2>1. Units(session'.units) \subseteq Units(session.units) \cup Units(temp)
    BY <1>3, NoUnits DEF Dispatch
  <2>2. UploadSealed'
    BY <1>3, <2>1, SendingKeepsPieces DEF Dispatch, past, Uploading
  <2> QED
    BY <1>3, <2>2 DEF Dispatch, SealInv, Uploading, Downloading
<1>4. CASE PutWhole
  <2>1. Source = temp
    BY DEF Source
  <2>2. ObjectSealed' /\ pc' = "stored"
    BY <1>4, <2>1, StoredKeepsPieces DEF PutWhole, down, Uploading
  <2> QED
    BY <2>2 DEF SealInv, Uploading
<1>5. CASE Fetch
  <2>1. pc' = "fetching" /\ got' = object /\ UNCHANGED <<object, sent>> /\ pc = "stored"
    BY <1>5 DEF Fetch, past
  <2>2. ObjectSealed'
    BY <2>1, ObjectKeepsPieces
  <2> QED
    BY <2>1, <2>2 DEF SealInv, Uploading
<1>6. CASE FetchBreaks
  <2>1. pc' = "stored" /\ UNCHANGED <<object, got, sent>> /\ pc = "stored"
    BY <1>6 DEF FetchBreaks, past
  <2>2. ObjectSealed'
    BY <2>1, ObjectKeepsPieces
  <2> QED
    BY <2>1, <2>2 DEF SealInv, Uploading
<1>7. CASE OpenHeader
  <2>1. pc = "fetching" /\ UNCHANGED <<object, sent>>
    BY <1>7 DEF OpenHeader, past
  <2>2. CASE Ends
    BY <1>1, <2>1, <2>2, EndsKeepsPieces DEF Downloading
  <2>3. CASE ~Ends
    <3>1. pc' = "opening" /\ dest' = <<>> /\ opening'.idx = 0 /\ UNCHANGED got
      BY <1>7, <2>3 DEF OpenHeader
    <3>2. PICK c \in Cuts(sent) :
            \A u \in Sealed(Units(object) \cup Units(got)) : CarriesItsPiece(u, sent, c)
      BY <2>1 DEF SealInv, ObjectSealed, Downloading
    <3>3. c[0] = 0 /\ SubSeq(sent, 1, 0) = <<>>
      BY SubSeqEmpty DEF Cuts
    <3>4. ObjectSealed'
      BY <2>1, <3>1, <3>2, <3>3 DEF ObjectSealed
    <3> QED
      BY <3>1, <3>4 DEF SealInv, Uploading
  <2> QED
    BY <2>2, <2>3
<1>8. CASE Fails
  BY <1>1, <1>8, EndsKeepsPieces DEF Fails, past
<1>9. CASE Edit \/ UNCHANGED vars
  <2>1. UNCHANGED <<pc, sealing, temp, session, object, got, opening, dest, reading, sent>>
    BY <1>9 DEF Edit, vars, up, down, past
  <2> QED
    BY <1>1, <2>1 DEF SealInv, UploadSealed, ObjectSealed
<1>10. CASE Damage
  <2>1. pc = "stored" /\ pc' = "stored" /\ UNCHANGED <<got, sent>>
    BY <1>10 DEF Damage, down, past
  <2>2. Units(object') \subseteq Units(object)
    BY <1>10, DamageFacts DEF Damage, TransferTypes
  <2>3. ObjectSealed'
    BY <2>1, <2>2, ObjectKeepsPieces
  <2> QED
    BY <2>1, <2>3 DEF SealInv, Uploading
<1> QED
  BY <1>2, <1>3, <1>4, <1>5, <1>6, <1>7, <1>8, <1>9, <1>10, BeginKeepsPieces,
     PutChunkKeepsPieces, OpenChunkKeepsPieces DEF Next, Upload, Download

(***************************************************************************)
(* Every sealed unit carries the piece of what was read that its counter   *)
(* stands for, wherever failures, retries and damage have put it.          *)
(***************************************************************************)
THEOREM SealInvariant == Spec => []SealInv
<1>1. Init => SealInv
  BY DEF Init, SealInv, Uploading, Downloading
<1> QED
  BY <1>1, SealStep, TypesHold, PTL DEF Spec

(***************************************************************************)
(* An object that decrypts is the whole of what was read when it was made, *)
(* and what has been written of it so far is a beginning of that, for      *)
(* every file, every way of damaging the object and every size of chunk.   *)
(***************************************************************************)
THEOREM RestoredTheorem == Spec => []RestoredIsWhole
<1>1. TransferTypes /\ SealInv => RestoredIsWhole
  <2> SUFFICES ASSUME TransferTypes, SealInv, encrypted, pc = "opening"
               PROVE  dest = SubSeq(sent, 1, Len(dest))
    BY DEF SealInv, RestoredIsWhole
  <2>1. PICK c \in Cuts(sent) : dest = SubSeq(sent, 1, c[opening.idx])
    BY DEF SealInv, ObjectSealed, Downloading
  <2>2. c[opening.idx] \in 0..Len(sent) /\ sent \in Seq(Byte) /\ Len(sent) \in Nat
    BY LenProperties DEF Cuts, TransferTypes, Loop
  <2>3. Len(SubSeq(sent, 1, c[opening.idx])) = c[opening.idx]
    <3>1. \A j \in 1..c[opening.idx] : sent[j] \in Byte
      BY <2>2, ElementOfSeq
    <3>2. Len(SubSeq(sent, 1, c[opening.idx]))
            = IF 1 <= c[opening.idx] THEN c[opening.idx] - 1 + 1 ELSE 0
      BY <2>2, <3>1, SubSeqProperties
    <3> QED
      BY <2>2, <3>2
  <2> QED
    BY <2>1, <2>3
<1> QED
  BY <1>1, SealInvariant, TypesHold, PTL
=============================================================================
