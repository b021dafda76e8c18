------------------------------ MODULE Session ------------------------------
(***************************************************************************)
(* One interactive session (cmd_unlock in src/zkvault/cli.py): the main    *)
(* thread at its prompt, the idle watchdog, and the threads that clear the *)
(* clipboard (src/zkvault/session.py).                                     *)
(*                                                                         *)
(* A step is what a thread does between two points where another thread    *)
(* may run and be noticed.  Interrupts (Ctrl-C, end of input) arrive while *)
(* the main thread is blocked.  The clipboard tool works.  What sync and   *)
(* other processes do to the vault file is left to DeviceSync and          *)
(* LocalVault.                                                             *)
(***************************************************************************)
EXTENDS Naturals

CONSTANTS Secret,      \* passwords of entries
          Empty,       \* the cleared clipboard
          Other,       \* what the user copies elsewhere
          AutoLock,    \* auto_lock_seconds; 0 never locks
          ClearAfter,  \* clipboard_clear_seconds
          MaxEdits,    \* bound: edits made
          MaxCopies    \* bound: passwords copied

ASSUME BoundsAssumption ==
    AutoLock \in Nat /\ ClearAfter \in Nat /\ MaxEdits \in Nat /\ MaxCopies \in Nat
ASSUME ClipboardAssumption == Empty \notin Secret /\ Other \notin Secret /\ Other # Empty

VARIABLES
    pc,        \* where the main thread is
    contents,  \* the vault in memory: the number of edits made
    dirty,
    closing,   \* the save under way is the one offered on leaving
    sealed,    \* the payload last encrypted: the edits and the key it was encrypted under
    file,      \* the payload stored
    key,       \* the vault key's buffer: live, zeroed but not yet marked, or wiped
    watch,     \* where the watchdog is
    idle,      \* seconds since last_activity; AutoLock stands for that many or more
    clip,      \* the clipboard
    clearing,  \* the clearing threads: step, password and seconds left
    exit,      \* history: how the session ended
    late       \* history: the main thread has moved after the watchdog cleared the clipboard

main == <<pc, closing, exit, late>>
memory == <<contents, dirty, sealed>>
vars == <<main, memory, file, key, watch, idle, clip, clearing>>

Copies == 1 .. MaxCopies
NoThread == [step |-> "unused", text |-> Empty, left |-> 0]

Init ==
    /\ pc = "prompt"
    /\ contents = 0
    /\ dirty = FALSE
    /\ closing = FALSE
    /\ sealed = [edits |-> 0, under |-> "live"]
    /\ file = sealed
    /\ key = "live"
    /\ watch = "sleeping"
    /\ idle = 0
    /\ clip = Empty
    /\ clearing = [n \in Copies |-> NoThread]
    /\ exit = "none"
    /\ late = FALSE

Running == pc # "ended"
expired == AutoLock # 0 /\ idle = AutoLock
locked == key = "wiped"
touch == idle' = 0

\* The main thread moves on; "late" when the watchdog has only to exit.
Go(step) == pc' = step /\ late' = (late \/ watch = "exiting")

Continue(step) == Go(step) /\ UNCHANGED <<closing, exit>>

\* The process ends, and every thread with it.
End(how) == Go("ended") /\ exit' = how /\ UNCHANGED closing

(***************************************************************************)
(* The user.                                                               *)
(***************************************************************************)
Command ==
    /\ pc = "prompt"
    /\ \E step \in {"prompt", "asking", "save", "get", "leave"} : Continue(step)
    /\ touch
    /\ UNCHANGED <<memory, file, key, watch, clip, clearing>>

\* Mutant: an edit is not noted as unsaved.
EditUnmarked ==
    /\ pc = "asking" /\ contents < MaxEdits
    /\ contents' = contents + 1
    /\ Continue("prompt")
    /\ touch
    /\ UNCHANGED <<dirty, sealed, file, key, watch, clip, clearing>>

\* add, edit or rm: the questions are answered.
Edit ==
    /\ pc = "asking" /\ contents < MaxEdits
    /\ contents' = contents + 1
    /\ dirty' = TRUE
    /\ Continue("prompt")
    /\ touch
    /\ UNCHANGED <<sealed, file, key, watch, clip, clearing>>

\* A command that changes nothing, or that ends with a handled error; a
\* "continue" skips the touch.
EditNothing ==
    /\ pc = "asking"
    /\ Continue("prompt")
    /\ touch \/ UNCHANGED idle
    /\ UNCHANGED <<memory, file, key, watch, clip, clearing>>

\* Ctrl-C or end of input ends the loop, untouched.
Interrupt ==
    /\ pc \in {"prompt", "asking"}
    /\ Continue("leave")
    /\ UNCHANGED <<memory, file, key, watch, idle, clip, clearing>>

\* Ctrl-C while the copied password waits to be cleared.
InterruptJoin ==
    /\ pc = "join"
    /\ Continue("recheck")
    /\ UNCHANGED <<memory, file, key, watch, idle, clip, clearing>>

\* "save changes before locking?"; an interrupt here leaves the finally block.
Answer ==
    /\ pc = "confirm"
    /\ \/ Go("save") /\ closing' = TRUE /\ UNCHANGED exit
       \/ Go("lock") /\ exit' = "declined" /\ UNCHANGED closing
       \/ End("aborted")
    /\ UNCHANGED <<memory, file, key, watch, idle, clip, clearing>>

\* In some other program.
CopyElsewhere ==
    /\ Running /\ clip # Other
    /\ clip' = Other
    /\ UNCHANGED <<main, memory, file, key, watch, idle, clearing>>

UserActs == Command \/ Edit \/ EditNothing \/ Interrupt \/ InterruptJoin \/ Answer

(***************************************************************************)
(* The main thread.                                                        *)
(***************************************************************************)
\* A CryptoFailure: reported at the prompt, but out of the finally block it
\* ends the session.
Fail == IF closing THEN End("failed") /\ UNCHANGED idle ELSE Continue("prompt") /\ touch

\* UnlockedVault.save asks whether the vault is locked ...
Save ==
    /\ pc = "save"
    /\ \/ locked /\ Fail
       \/ ~locked /\ Continue("seal") /\ UNCHANGED idle
    /\ UNCHANGED <<memory, file, key, watch, clip, clearing>>

\* Mutant: the key is read without asking whether it has been wiped.
SealUnchecked ==
    /\ pc = "seal"
    /\ sealed' = [edits |-> contents, under |-> key]
    /\ Continue("write")
    /\ UNCHANGED <<contents, dirty, file, key, watch, idle, clip, clearing>>

\* ... and _seal reads the key later (Secret.bytes).
Seal ==
    /\ pc = "seal"
    /\ \/ locked /\ Fail /\ UNCHANGED sealed
       \/ /\ ~locked
          /\ sealed' = [edits |-> contents, under |-> key]
          /\ Continue("write")
          /\ UNCHANGED idle
    /\ UNCHANGED <<contents, dirty, file, key, watch, clip, clearing>>

\* VaultFile.save, and for the command the record and the touch after it.
Write ==
    /\ pc = "write"
    /\ file' = sealed
    /\ \/ closing /\ Continue("lock") /\ UNCHANGED <<dirty, idle>>
       \/ ~closing /\ Continue("prompt") /\ dirty' = FALSE /\ touch
    /\ UNCHANGED <<contents, sealed, key, watch, clip, clearing>>

\* An OSError leaves the loop, or the finally block.  Before closing it may
\* also come from the record, the vault being stored.
WriteFails ==
    /\ pc = "write"
    /\ \/ closing /\ End("failed") /\ UNCHANGED file
       \/ ~closing /\ Continue("leave") /\ file' \in {file, sealed}
    /\ UNCHANGED <<memory, key, watch, idle, clip, clearing>>

\* get: copy_with_timeout, then join.
Get ==
    /\ pc = "get"
    /\ \E n \in Copies, s \in Secret :
           /\ clearing[n].step = "unused"
           /\ \A m \in 1 .. n - 1 : clearing[m].step # "unused"
           /\ clip' = s
           /\ clearing' = [clearing EXCEPT ![n] = [step |-> "sleeping", text |-> s, left |-> ClearAfter]]
    /\ Continue("join")
    /\ UNCHANGED <<memory, file, key, watch, idle>>

\* The thread joined is the one started last.
Joined(n) == clearing[n].step # "unused" /\ \A m \in Copies : m > n => clearing[m].step = "unused"

Join ==
    /\ pc = "join"
    /\ \E n \in Copies : Joined(n) /\ clearing[n].step = "done"
    /\ Continue("prompt")
    /\ touch
    /\ UNCHANGED <<memory, file, key, watch, clip, clearing>>

\* clear(only_if_equals): the clipboard is read ...
Recheck ==
    /\ pc = "recheck"
    /\ \E n \in Copies :
           /\ Joined(n)
           /\ \/ clip = clearing[n].text /\ Continue("reclear") /\ UNCHANGED idle
              \/ clip # clearing[n].text /\ Continue("prompt") /\ touch
    /\ UNCHANGED <<memory, file, key, watch, clip, clearing>>

\* ... and then overwritten.
Reclear ==
    /\ pc = "reclear"
    /\ clip' = Empty
    /\ Continue("prompt")
    /\ touch
    /\ UNCHANGED <<memory, file, key, watch, clearing>>

\* confirm asks only at a terminal; elsewhere it takes the answer for a no.
Leave ==
    /\ pc = "leave"
    /\ \/ dirty /\ Continue("confirm")
       \/ dirty /\ Go("lock") /\ exit' = "unasked" /\ UNCHANGED closing
       \/ ~dirty /\ Continue("lock")
    /\ UNCHANGED <<memory, file, key, watch, idle, clip, clearing>>

Lock ==
    /\ pc = "lock"
    /\ key' = "wiped"
    /\ Continue("clear")
    /\ UNCHANGED <<memory, file, watch, idle, clip, clearing>>

Clear ==
    /\ pc = "clear"
    /\ clip' = Empty
    /\ End(IF exit = "none" THEN "locked" ELSE exit)
    /\ UNCHANGED <<memory, file, key, watch, idle, clearing>>

MainStep ==
    \/ Save \/ Seal \/ Write \/ WriteFails \/ Get \/ Join \/ Recheck \/ Reclear \/ Leave \/ Lock \/ Clear

(***************************************************************************)
(* The watchdog.                                                           *)
(***************************************************************************)
\* Mutant: the watchdog waits for the key to be wiped by somebody else.
WatchOnly ==
    /\ Running /\ watch = "sleeping" /\ locked
    /\ watch' = "stopped"
    /\ UNCHANGED <<main, memory, file, key, idle, clip, clearing>>

\* Once a second.
Watch ==
    /\ Running /\ watch = "sleeping"
    /\ \/ locked /\ watch' = "stopped"
       \/ ~locked /\ expired /\ watch' = "found"
    /\ UNCHANGED <<main, memory, file, key, idle, clip, clearing>>

\* Secret.wipe zeroes the buffer ...
Zero ==
    /\ Running /\ watch = "found"
    /\ watch' = "wiping"
    /\ key' = IF locked THEN key ELSE "zeroed"
    /\ UNCHANGED <<main, memory, file, idle, clip, clearing>>

\* ... and then marks it wiped.
Wipe ==
    /\ Running /\ watch = "wiping"
    /\ watch' = "clearing"
    /\ key' = "wiped"
    /\ UNCHANGED <<main, memory, file, idle, clip, clearing>>

\* Mutant: the watchdog leaves the clipboard to the clearing threads.
WatchClearNothing ==
    /\ Running /\ watch = "clearing"
    /\ watch' = "exiting"
    /\ UNCHANGED <<main, memory, file, key, idle, clip, clearing>>

WatchClear ==
    /\ Running /\ watch = "clearing"
    /\ watch' = "exiting"
    /\ clip' = Empty
    /\ UNCHANGED <<main, memory, file, key, idle, clearing>>

\* os._exit(0)
WatchExit ==
    /\ Running /\ watch = "exiting"
    /\ pc' = "ended" /\ exit' = "idle"
    /\ UNCHANGED <<closing, late, memory, file, key, watch, idle, clip, clearing>>

WatchStep == Watch \/ Zero \/ Wipe \/ WatchClear \/ WatchExit

(***************************************************************************)
(* The clearing threads, and time.                                         *)
(***************************************************************************)
ClearCheck(n) ==
    /\ Running /\ clearing[n].step = "sleeping" /\ clearing[n].left = 0
    /\ clearing' = [clearing EXCEPT ![n].step =
                       IF clip = clearing[n].text THEN "clearing" ELSE "done"]
    /\ UNCHANGED <<main, memory, file, key, watch, idle, clip>>

ClearNow(n) ==
    /\ Running /\ clearing[n].step = "clearing"
    /\ clearing' = [clearing EXCEPT ![n].step = "done"]
    /\ clip' = Empty
    /\ UNCHANGED <<main, memory, file, key, watch, idle>>

ClearStep(n) == ClearCheck(n) \/ ClearNow(n)

\* A second passes.  IdleLock.expired asks only whether the limit is reached.
Tick ==
    /\ Running
    /\ idle' = IF idle < AutoLock THEN idle + 1 ELSE idle
    /\ clearing' = [n \in Copies |->
                       IF clearing[n].left > 0 THEN [clearing[n] EXCEPT !.left = @ - 1] ELSE clearing[n]]
    /\ UNCHANGED <<main, memory, file, key, watch, clip>>

Next ==
    \/ UserActs \/ CopyElsewhere
    \/ MainStep
    \/ WatchStep
    \/ \E n \in Copies : ClearStep(n)
    \/ Tick

\* Threads that can run do, and time passes; the user may do nothing.
Fairness ==
    /\ WF_vars(MainStep)
    /\ WF_vars(WatchStep)
    /\ \A n \in Copies : WF_vars(ClearStep(n))
    /\ WF_vars(Tick)

Spec == Init /\ [][Next]_vars /\ Fairness

(***************************************************************************)
(* Properties.                                                             *)
(***************************************************************************)
Payload == [edits : 0 .. MaxEdits, under : {"live", "zeroed"}]

\* The variables have their types: the counters stay within their limits, and
\* no payload is encrypted under a key marked wiped (Secret.bytes raises).
TypeOK ==
    /\ pc \in {"prompt", "asking", "save", "seal", "write", "get", "join", "recheck",
              "reclear", "leave", "confirm", "lock", "clear", "ended"}
    /\ contents \in 0 .. MaxEdits
    /\ dirty \in BOOLEAN /\ closing \in BOOLEAN /\ late \in BOOLEAN
    /\ sealed \in Payload /\ file \in Payload
    /\ key \in {"live", "zeroed", "wiped"}
    /\ watch \in {"sleeping", "found", "wiping", "clearing", "exiting", "stopped"}
    /\ idle \in 0 .. AutoLock
    /\ clip \in Secret \cup {Empty, Other}
    /\ clearing \in [Copies -> [step : {"unused", "sleeping", "clearing", "done"},
                               text : Secret \cup {Empty}, left : 0 .. ClearAfter]]
    /\ exit \in {"none", "locked", "declined", "unasked", "aborted", "failed", "idle"}

\* A session that ends by itself leaves every edit in the vault file, unless its
\* user declined to save or, with no terminal, was not asked: an edit is never
\* forgotten between the commands, the save offered on leaving and a watchdog that
\* may already be at work (cmd_unlock).
EndedStored == exit = "locked" => file.edits = contents

\* The stored vault is encrypted under the vault key: the watchdog's lock costs
\* the unsaved changes, never the vault (the docstring of watchdog in cmd_unlock).
StoredVaultOpens == file.under # "zeroed"

\* A copied password leaves the clipboard, whether the user waits, interrupts,
\* copies something else or is locked out, except when it is copied after the
\* watchdog cleared the clipboard and before it ends the process.
CopiedSecretCleared == (clip \in Secret) ~> (clip \notin Secret \/ late)

\* A session whose user goes away ends, wherever the main thread is blocked,
\* when auto_lock_seconds is positive.
IdleSessionEnds == AutoLock # 0 => []<><<UserActs>>_vars \/ <>(pc = "ended")
=============================================================================
