---------------------------- MODULE MCResolution ----------------------------
(***************************************************************************)
(* A small instance of ConflictResolution for TLC: one path.  Contents are *)
(* interchangeable, so the first one to be on either side is always the    *)
(* same one.                                                               *)
(***************************************************************************)
EXTENDS ConflictResolution

FirstContent == CHOOSE c \in Content : TRUE

MCResolveInit ==
  /\ ResolveInit
  /\ \A p \in Path :
       IF local[p] # None THEN local[p] = FirstContent
       ELSE \A i \in Live(p) : drive[i].data = FirstContent

MCResolveSpec == MCResolveInit /\ [][ResolveNext]_allVars /\ ResolveFairness
=============================================================================
