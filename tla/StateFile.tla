----------------------------- MODULE StateFile -----------------------------
(***************************************************************************)
(* state.json as _write_private_json (src/zkvault/state.py) rewrites it:   *)
(* every writer opens the same "<path>.tmp" with O_TRUNC, writes, fsyncs   *)
(* and renames it over the file.  The name is shared, so two writers can   *)
(* hold the same inode, and one that lost the rename race is left writing  *)
(* into the live file.                                                     *)
(*                                                                         *)
(* A file holds the marks of one vault, or Torn when it is empty or does   *)
(* not parse.                                                              *)
(***************************************************************************)
EXTENDS VaultFormat

CONSTANTS Proc,     \* CLI processes on this device
          Torn,     \* content of a file that json.loads rejects
          NoFile    \* the path does not exist

VARIABLES stateJson,   \* content of state.json
          stateTmp,    \* content of state.json.tmp
          stateFd      \* where the descriptor a process writes to leads now

stateVars == <<stateJson, stateTmp, stateFd>>

StateFileInit ==
    /\ stateJson = NoFile
    /\ stateTmp = NoFile
    /\ stateFd = [p \in Proc |-> "none"]

\* DeviceState.load(): a missing or unreadable file is an empty state.
Loaded(json) == IF json \in {NoFile, Torn} THEN NothingSeen ELSE json

OpenTmp(p) ==
    /\ stateTmp' = Torn
    /\ stateFd' = [stateFd EXCEPT ![p] = "tmp"]
    /\ UNCHANGED stateJson

\* What one write leaves in an inode that already holds `old`: with a longer
\* text of another writer beneath it, the tail survives and nothing parses.
Written(old, data) == IF old = Torn THEN {data} ELSE {data, Torn}

WriteTmp(p, data) ==
    /\ \/ /\ stateFd[p] = "tmp"
          /\ stateTmp' \in Written(stateTmp, data)
          /\ UNCHANGED stateJson
       \/ /\ stateFd[p] = "json"
          /\ stateJson' \in Written(stateJson, data)
          /\ UNCHANGED stateTmp
       \/ /\ stateFd[p] = "orphan"
          /\ UNCHANGED <<stateJson, stateTmp>>
    /\ stateFd' = [stateFd EXCEPT ![p] = "none"]

\* After the rename an open descriptor follows its inode.
FollowRename(fd) == CASE fd = "tmp" -> "json" [] fd = "json" -> "orphan" [] OTHER -> fd

ReplaceState(p) ==
    /\ stateTmp # NoFile
    /\ stateJson' = stateTmp
    /\ stateTmp' = NoFile
    /\ stateFd' = [q \in Proc |-> FollowRename(stateFd[q])]
=============================================================================
