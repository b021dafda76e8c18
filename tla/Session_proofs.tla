--------------------------- MODULE Session_proofs ---------------------------
(***************************************************************************)
(* Theorems about Session: its types, and that a session which ends by     *)
(* itself has stored every edit.                                           *)
(***************************************************************************)
EXTENDS Session, TLAPS

USE BoundsAssumption, ClipboardAssumption DEF main, memory, vars

(***************************************************************************)
(* Types.                                                                  *)
(***************************************************************************)

\* The types in three parts: Boolean variables, steps, and the rest.
FlagsTyped == closing \in BOOLEAN /\ late \in BOOLEAN /\ dirty \in BOOLEAN

StepsTyped ==
    /\ pc \in {"prompt", "asking", "save", "seal", "write", "get", "join", "recheck",
              "reclear", "leave", "confirm", "lock", "clear", "ended"}
    /\ exit \in {"none", "locked", "declined", "unasked", "aborted", "failed", "idle"}

DataTyped ==
    /\ contents \in 0 .. MaxEdits
    /\ sealed \in Payload /\ file \in Payload
    /\ key \in {"live", "zeroed", "wiped"}
    /\ watch \in {"sleeping", "found", "wiping", "clearing", "exiting", "stopped"}
    /\ idle \in 0 .. AutoLock
    /\ clip \in Secret \cup {Empty, Other}
    /\ clearing \in [Copies -> [step : {"unused", "sleeping", "clearing", "done"},
                               text : Secret \cup {Empty}, left : 0 .. ClearAfter]]

\* The types hold of a session just opened.
LEMMA InitTypes == Init => TypeOK
<1> SUFFICES ASSUME Init PROVE TypeOK
  OBVIOUS
<1>1. FlagsTyped
  BY Zenon DEF Init, FlagsTyped
<1>2. StepsTyped
  BY DEF Init, StepsTyped
<1>3. DataTyped
  BY DEF Init, DataTyped, NoThread, Payload
<1>4. QED
  BY <1>1, <1>2, <1>3, Zenon DEF TypeOK, FlagsTyped, StepsTyped, DataTyped

\* Every step keeps the types.
LEMMA StepTypes == TypeOK /\ [Next]_vars => TypeOK'
<1> SUFFICES ASSUME TypeOK, [Next]_vars PROVE TypeOK'
  OBVIOUS
<1>1. ASSUME Command PROVE TypeOK'
  BY <1>1 DEF Command, Continue, Go, touch, TypeOK, Payload
<1>2. ASSUME Edit PROVE TypeOK'
  BY <1>2 DEF Edit, Continue, Go, touch, TypeOK, Payload
<1>3. ASSUME EditNothing PROVE TypeOK'
  BY <1>3 DEF EditNothing, Continue, Go, touch, TypeOK, Payload
<1>4. ASSUME Interrupt PROVE TypeOK'
  BY <1>4 DEF Interrupt, Continue, Go, TypeOK, Payload
<1>5. ASSUME InterruptJoin PROVE TypeOK'
  BY <1>5 DEF InterruptJoin, Continue, Go, TypeOK, Payload
<1>6. ASSUME Answer PROVE TypeOK'
  <2>1. FlagsTyped'
    BY <1>6, Zenon DEF Answer, Go, End, TypeOK, FlagsTyped
  <2>2. StepsTyped'
    BY <1>6 DEF Answer, Go, End, TypeOK, StepsTyped
  <2>3. DataTyped'
    BY <1>6 DEF Answer, Go, End, TypeOK, DataTyped, Payload
  <2>4. QED
    BY <2>1, <2>2, <2>3, Zenon DEF TypeOK, FlagsTyped, StepsTyped, DataTyped
<1>7. ASSUME CopyElsewhere PROVE TypeOK'
  BY <1>7 DEF CopyElsewhere, Running, TypeOK, Payload
<1>8. ASSUME Save PROVE TypeOK'
  <2>1. FlagsTyped'
    BY <1>8, Zenon DEF Save, Fail, End, Continue, Go, touch, locked, TypeOK, FlagsTyped
  <2>2. StepsTyped'
    BY <1>8 DEF Save, Fail, End, Continue, Go, touch, locked, TypeOK, StepsTyped
  <2>3. DataTyped'
    BY <1>8 DEF Save, Fail, End, Continue, Go, touch, locked, TypeOK, DataTyped, Payload
  <2>4. QED
    BY <2>1, <2>2, <2>3, Zenon DEF TypeOK, FlagsTyped, StepsTyped, DataTyped
<1>9. ASSUME Seal PROVE TypeOK'
  <2>1. FlagsTyped'
    BY <1>9, Zenon DEF Seal, Fail, End, Continue, Go, touch, locked, TypeOK, FlagsTyped
  <2>2. StepsTyped'
    BY <1>9 DEF Seal, Fail, End, Continue, Go, touch, locked, TypeOK, StepsTyped
  <2>3. DataTyped'
    BY <1>9 DEF Seal, Fail, End, Continue, Go, touch, locked, TypeOK, DataTyped, Payload
  <2>4. QED
    BY <2>1, <2>2, <2>3, Zenon DEF TypeOK, FlagsTyped, StepsTyped, DataTyped
<1>10. ASSUME Write PROVE TypeOK'
  <2>1. FlagsTyped'
    BY <1>10, Zenon DEF Write, Continue, Go, touch, TypeOK, FlagsTyped
  <2>2. StepsTyped'
    BY <1>10 DEF Write, Continue, Go, touch, TypeOK, StepsTyped
  <2>3. DataTyped'
    BY <1>10 DEF Write, Continue, Go, touch, TypeOK, DataTyped, Payload
  <2>4. QED
    BY <2>1, <2>2, <2>3, Zenon DEF TypeOK, FlagsTyped, StepsTyped, DataTyped
<1>11. ASSUME WriteFails PROVE TypeOK'
  <2>1. FlagsTyped'
    BY <1>11, Zenon DEF WriteFails, End, Continue, Go, TypeOK, FlagsTyped
  <2>2. StepsTyped'
    BY <1>11 DEF WriteFails, End, Continue, Go, TypeOK, StepsTyped
  <2>3. DataTyped'
    BY <1>11 DEF WriteFails, End, Continue, Go, TypeOK, DataTyped, Payload
  <2>4. QED
    BY <2>1, <2>2, <2>3, Zenon DEF TypeOK, FlagsTyped, StepsTyped, DataTyped
<1>12. ASSUME Get PROVE TypeOK'
  BY <1>12 DEF Get, Continue, Go, TypeOK, Payload
<1>13. ASSUME Join PROVE TypeOK'
  BY <1>13 DEF Join, Continue, Go, touch, Joined, TypeOK, Payload
<1>14. ASSUME Recheck PROVE TypeOK'
  <2>1. FlagsTyped'
    BY <1>14, Zenon DEF Recheck, Continue, Go, touch, Joined, TypeOK, FlagsTyped
  <2>2. StepsTyped'
    BY <1>14 DEF Recheck, Continue, Go, touch, Joined, TypeOK, StepsTyped
  <2>3. DataTyped'
    BY <1>14 DEF Recheck, Continue, Go, touch, Joined, TypeOK, DataTyped, Payload
  <2>4. QED
    BY <2>1, <2>2, <2>3, Zenon DEF TypeOK, FlagsTyped, StepsTyped, DataTyped
<1>15. ASSUME Reclear PROVE TypeOK'
  BY <1>15 DEF Reclear, Continue, Go, touch, TypeOK, Payload
<1>16. ASSUME Leave PROVE TypeOK'
  <2>1. FlagsTyped'
    BY <1>16, Zenon DEF Leave, Continue, Go, TypeOK, FlagsTyped
  <2>2. StepsTyped'
    BY <1>16 DEF Leave, Continue, Go, TypeOK, StepsTyped
  <2>3. DataTyped'
    BY <1>16 DEF Leave, Continue, Go, TypeOK, DataTyped, Payload
  <2>4. QED
    BY <2>1, <2>2, <2>3, Zenon DEF TypeOK, FlagsTyped, StepsTyped, DataTyped
<1>17. ASSUME Lock PROVE TypeOK'
  BY <1>17 DEF Lock, Continue, Go, TypeOK, Payload
<1>18. ASSUME Clear PROVE TypeOK'
  BY <1>18 DEF Clear, End, Go, TypeOK, Payload
<1>19. ASSUME Watch PROVE TypeOK'
  BY <1>19 DEF Watch, Running, locked, expired, TypeOK, Payload
<1>20. ASSUME Zero PROVE TypeOK'
  BY <1>20 DEF Zero, Running, locked, TypeOK, Payload
<1>21. ASSUME Wipe PROVE TypeOK'
  BY <1>21 DEF Wipe, Running, TypeOK, Payload
<1>22. ASSUME WatchClear PROVE TypeOK'
  BY <1>22 DEF WatchClear, Running, TypeOK, Payload
<1>23. ASSUME WatchExit PROVE TypeOK'
  BY <1>23 DEF WatchExit, Running, TypeOK, Payload
<1>24. ASSUME NEW n \in Copies, ClearCheck(n) PROVE TypeOK'
  BY <1>24 DEF ClearCheck, Running, TypeOK, Payload
<1>25. ASSUME NEW n \in Copies, ClearNow(n) PROVE TypeOK'
  BY <1>25 DEF ClearNow, Running, TypeOK, Payload
<1>26. ASSUME Tick PROVE TypeOK'
  BY <1>26 DEF Tick, Running, TypeOK, Payload
<1>27. ASSUME UNCHANGED vars PROVE TypeOK'
  BY <1>27 DEF TypeOK, Payload
<1>28. QED
  BY <1>1, <1>2, <1>3, <1>4, <1>5, <1>6, <1>7, <1>8, <1>9, <1>10, <1>11, <1>12, <1>13,
       <1>14, <1>15, <1>16, <1>17, <1>18, <1>19, <1>20, <1>21, <1>22, <1>23, <1>24, <1>25,
       <1>26, <1>27 DEF Next, UserActs, MainStep, WatchStep, ClearStep

(***************************************************************************)
(* What is stored when a session ends.                                     *)
(***************************************************************************)
\* No edit is made between the encryption of a payload and its storing.
SealedOK == pc = "write" => sealed.edits = contents

\* What "dirty" promises: contents not marked unsaved are those of the file.
CleanOK == ~dirty => file.edits = contents

\* Past the question whether to save, every edit is stored, unless the answer was
\* no or nobody was asked.
LeavingOK ==
    /\ pc \in {"lock", "clear"} => exit \in {"declined", "unasked"} \/ file.edits = contents
    /\ pc \notin {"lock", "clear", "ended"} => exit = "none"

\* The inductive invariant behind EndedStored.
Stored == SealedOK /\ CleanOK /\ LeavingOK /\ EndedStored

\* It holds of a session just opened.
LEMMA InitStored == Init => Stored
  BY DEF Init, Stored, SealedOK, CleanOK, LeavingOK, EndedStored

\* Every step keeps it.
LEMMA StepStored == Stored /\ [Next]_vars => Stored'
<1> SUFFICES ASSUME Stored, [Next]_vars PROVE Stored'
  OBVIOUS
<1>1. ASSUME Command PROVE Stored'
  BY <1>1 DEF Command, Continue, Go, touch, Stored, SealedOK, CleanOK, LeavingOK, EndedStored
<1>2. ASSUME Edit PROVE Stored'
  BY <1>2 DEF Edit, Continue, Go, touch, Stored, SealedOK, CleanOK, LeavingOK, EndedStored
<1>3. ASSUME EditNothing PROVE Stored'
  BY <1>3 DEF EditNothing, Continue, Go, touch, Stored, SealedOK, CleanOK, LeavingOK, EndedStored
<1>4. ASSUME Interrupt PROVE Stored'
  BY <1>4 DEF Interrupt, Continue, Go, Stored, SealedOK, CleanOK, LeavingOK, EndedStored
<1>5. ASSUME InterruptJoin PROVE Stored'
  BY <1>5 DEF InterruptJoin, Continue, Go, Stored, SealedOK, CleanOK, LeavingOK, EndedStored
<1>6. ASSUME Answer PROVE Stored'
  BY <1>6 DEF Answer, Go, End, Stored, SealedOK, CleanOK, LeavingOK, EndedStored
<1>7. ASSUME CopyElsewhere PROVE Stored'
  BY <1>7 DEF CopyElsewhere, Running, Stored, SealedOK, CleanOK, LeavingOK, EndedStored
<1>8. ASSUME Save PROVE Stored'
  BY <1>8 DEF Save, Fail, End, Continue, Go, touch, locked, Stored, SealedOK, CleanOK,
       LeavingOK, EndedStored
<1>9. ASSUME Seal PROVE Stored'
  BY <1>9 DEF Seal, Fail, End, Continue, Go, touch, locked, Stored, SealedOK, CleanOK,
       LeavingOK, EndedStored
<1>10. ASSUME Write PROVE Stored'
  BY <1>10 DEF Write, Continue, Go, touch, Stored, SealedOK, CleanOK, LeavingOK, EndedStored
<1>11. ASSUME WriteFails PROVE Stored'
  BY <1>11 DEF WriteFails, End, Continue, Go, Stored, SealedOK, CleanOK, LeavingOK, EndedStored
<1>12. ASSUME Get PROVE Stored'
  BY <1>12 DEF Get, Continue, Go, Stored, SealedOK, CleanOK, LeavingOK, EndedStored
<1>13. ASSUME Join PROVE Stored'
  BY <1>13 DEF Join, Continue, Go, touch, Joined, Stored, SealedOK, CleanOK, LeavingOK, EndedStored
<1>14. ASSUME Recheck PROVE Stored'
  BY <1>14 DEF Recheck, Continue, Go, touch, Joined, Stored, SealedOK, CleanOK, LeavingOK,
       EndedStored
<1>15. ASSUME Reclear PROVE Stored'
  BY <1>15 DEF Reclear, Continue, Go, touch, Stored, SealedOK, CleanOK, LeavingOK, EndedStored
<1>16. ASSUME Leave PROVE Stored'
  BY <1>16 DEF Leave, Continue, Go, Stored, SealedOK, CleanOK, LeavingOK, EndedStored
<1>17. ASSUME Lock PROVE Stored'
  BY <1>17 DEF Lock, Continue, Go, Stored, SealedOK, CleanOK, LeavingOK, EndedStored
<1>18. ASSUME Clear PROVE Stored'
  BY <1>18 DEF Clear, End, Go, Stored, SealedOK, CleanOK, LeavingOK, EndedStored
<1>19. ASSUME Watch PROVE Stored'
  BY <1>19 DEF Watch, Running, locked, expired, Stored, SealedOK, CleanOK, LeavingOK, EndedStored
<1>20. ASSUME Zero PROVE Stored'
  BY <1>20 DEF Zero, Running, locked, Stored, SealedOK, CleanOK, LeavingOK, EndedStored
<1>21. ASSUME Wipe PROVE Stored'
  BY <1>21 DEF Wipe, Running, Stored, SealedOK, CleanOK, LeavingOK, EndedStored
<1>22. ASSUME WatchClear PROVE Stored'
  BY <1>22 DEF WatchClear, Running, Stored, SealedOK, CleanOK, LeavingOK, EndedStored
<1>23. ASSUME WatchExit PROVE Stored'
  BY <1>23 DEF WatchExit, Running, Stored, SealedOK, CleanOK, LeavingOK, EndedStored
<1>24. ASSUME NEW n \in Copies, ClearCheck(n) PROVE Stored'
  BY <1>24 DEF ClearCheck, Running, Stored, SealedOK, CleanOK, LeavingOK, EndedStored
<1>25. ASSUME NEW n \in Copies, ClearNow(n) PROVE Stored'
  BY <1>25 DEF ClearNow, Running, Stored, SealedOK, CleanOK, LeavingOK, EndedStored
<1>26. ASSUME Tick PROVE Stored'
  BY <1>26 DEF Tick, Running, Stored, SealedOK, CleanOK, LeavingOK, EndedStored
<1>27. ASSUME UNCHANGED vars PROVE Stored'
  BY <1>27 DEF Stored, SealedOK, CleanOK, LeavingOK, EndedStored
<1>28. QED
  BY <1>1, <1>2, <1>3, <1>4, <1>5, <1>6, <1>7, <1>8, <1>9, <1>10, <1>11, <1>12, <1>13,
       <1>14, <1>15, <1>16, <1>17, <1>18, <1>19, <1>20, <1>21, <1>22, <1>23, <1>24, <1>25,
       <1>26, <1>27 DEF Next, UserActs, MainStep, WatchStep, ClearStep

\* The variables of a session have their types, for every number of edits and
\* copies and every timeout; in particular no payload is ever encrypted under a
\* key already marked wiped.
THEOREM TypeCorrect == Spec => []TypeOK
  BY InitTypes, StepTypes, PTL DEF Spec

\* A session that ends by itself has stored every edit, however its threads
\* interleave, unless its user declined or could not be asked (cmd_unlock).
THEOREM EndsStored == Spec => []EndedStored
<1>1. Stored => EndedStored
  BY DEF Stored
<1>2. QED
  BY InitStored, StepStored, <1>1, PTL DEF Spec
=============================================================================
