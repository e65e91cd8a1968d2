------------------------------ MODULE Autosave ------------------------------
(***************************************************************************)
(* Crash recovery: the autosave worker thread (src/autosave.rs), the       *)
(* coordinator the UI ticks once per frame (ui/src/autosave.rs), the       *)
(* project commands of the app that flush, save and delete (ui/src/app.rs) *)
(* and the files they share.                                               *)
(*                                                                         *)
(* A project's content is a number: 0 is the blank project, every change   *)
(* (also an undo or a redo) makes the next one. Time is abstracted: "dirty *)
(* for 30 s" may become true at any frame after the one that noticed the   *)
(* change, and of two file times only "autosave newer than the project     *)
(* file" is kept, as find_autosave_newer_than does.                        *)
(***************************************************************************)
EXTENDS Integers, Sequences

CONSTANTS
    Paths,        \* .nexp files the user saves to and opens
    Untitled,     \* the place of the autosave of a project without a file
    MaxEdits, MaxSwitches, MaxSaves, MaxLaunches,  \* bounds
    Faults        \* "autosave", "save": file operations that may fail

ASSUME AutosaveAssumption ==
    /\ Untitled \notin Paths
    /\ MaxEdits \in Nat /\ MaxSwitches \in Nat /\ MaxSaves \in Nat
    /\ MaxLaunches \in Nat
    /\ Faults \subseteq {"autosave", "save"}

VARIABLES
    ui, target,                       \* the UI thread
    path, doc, token,                 \* the open project and its HistoryState
    lastToken, dirty, pushed,         \* AutosaveState
    recovery,                         \* pending_recovery
    answered, flushed,                \* history: content at the last answered
                                      \* dialog or unrecorded change, at the
                                      \* last flush
    slot, chan, sender,               \* AutosaveHandle
    wpc, wlast, wheld,                \* the worker
    written, failed,                  \* history: its last write
    saved, auto, tmp,                 \* the files
    edits, switches, saves, launches  \* counted for the bounds

projectVars == <<path, doc, token>>
stateVars == <<lastToken, dirty, pushed, recovery, answered, flushed>>
handleVars == <<slot, chan, sender>>
workerVars == <<wpc, wlast, wheld, written, failed>>
fileVars == <<saved, auto, tmp>>
boundVars == <<edits, switches, saves, launches>>
vars == <<ui, target, projectVars, stateVars, handleVars, workerVars, fileVars,
          boundVars>>

Places == Paths \cup {Untitled}
Nowhere == "nowhere"
NoDoc == -1
Torn == -2                            \* a file cut off in the middle
NoSnap == [at |-> Nowhere, doc |-> NoDoc]
Absent == [doc |-> NoDoc, newer |-> FALSE]

Init ==
    /\ ui = "up" /\ target = Nowhere
    /\ path = Untitled /\ doc = 0 /\ token = 0
    /\ lastToken = 0 /\ dirty = FALSE /\ pushed = NoSnap /\ recovery = Nowhere
    /\ answered = NoDoc /\ flushed = NoDoc
    /\ slot = NoSnap /\ chan = <<>> /\ sender = TRUE
    /\ wpc = "wait" /\ wlast = FALSE /\ wheld = NoSnap
    /\ written = NoSnap /\ failed = FALSE
    /\ saved = [p \in Paths |-> NoDoc]
    /\ auto = [at \in Places |-> Absent] /\ tmp = [at \in Places |-> Absent]
    /\ edits = 0 /\ switches = 0 /\ saves = 0 /\ launches = 0

-----------------------------------------------------------------------------
(* Files.                                                                  *)

Deleted(files, at) == [a \in DOMAIN files |-> IF a = at THEN Absent ELSE files[a]]

(* The project file was just written: nothing is newer.                    *)
Older(files, at) == [a \in DOMAIN files |->
                        IF a = at THEN [files[a] EXCEPT !.newer = FALSE] ELSE files[a]]

(* find_autosave_newer_than: without a project file any autosave counts.   *)
Offered(files, at) ==
    /\ files[at].doc # NoDoc
    /\ \/ at = Untitled
       \/ at \in Paths /\ (saved[at] = NoDoc \/ files[at].newer)

-----------------------------------------------------------------------------
(* AutosaveHandle: replace the slot, then try_send a wake-up.              *)

MutKeepPending(snap) == IF slot = NoSnap THEN snap ELSE slot
Replacing(snap) == snap

(* The mutant has an unbounded channel.                                   *)
MutSendAlways(msg) == chan' = Append(chan, msg)
TrySend(msg) == chan' = IF chan = <<>> THEN <<msg>> ELSE chan

PushSnapshot ==
    /\ pushed' = [at |-> path, doc |-> doc]
    /\ slot' = Replacing([at |-> path, doc |-> doc])
    /\ TrySend("wake")
    /\ lastToken' = token

(* flush: only when the token moved since the last push.                   *)
Flush ==
    IF token # lastToken
    THEN PushSnapshot
    ELSE UNCHANGED <<pushed, slot, chan, lastToken>>

(* The tick that ends every frame marks the project dirty; it does not run *)
(* while the recovery dialog is open. A flush that pushed has cleared the  *)
(* mark before.                                                            *)
MutAssumeMonotone == token' > lastToken'
TokenMoved == token' # lastToken'

TickAfter(wasDirty) ==
    dirty' = (wasDirty \/ (recovery' = Nowhere /\ TokenMoved))

-----------------------------------------------------------------------------
(* The UI thread: one action per command, each followed by the frame's     *)
(* tick.                                                                   *)

Edit ==
    /\ ui = "up" /\ edits < MaxEdits
    /\ edits' = edits + 1 /\ doc' = edits + 1 /\ token' = token + 1
    /\ UNCHANGED <<lastToken, recovery>>
    /\ TickAfter(dirty)
    /\ UNCHANGED <<ui, target, path, pushed, answered, flushed, handleVars,
                   workerVars, fileVars, switches, saves, launches>>

(* A change that no history entry records leaves the token alone: a click  *)
(* on a fader, or what a drag writes after its start was recorded.         *)
EditUnrecorded ==
    /\ ui = "up" /\ edits < MaxEdits
    /\ edits' = edits + 1 /\ doc' = edits + 1 /\ answered' = doc'
    /\ UNCHANGED <<token, lastToken, recovery>>
    /\ TickAfter(dirty)
    /\ UNCHANGED <<ui, target, path, pushed, flushed, handleVars, workerVars,
                   fileVars, switches, saves, launches>>

(* tick: dirty for AUTOSAVE_DEBOUNCE.                                      *)
AutosaveDue ==
    /\ ui = "up" /\ dirty /\ recovery = Nowhere
    /\ PushSnapshot
    /\ dirty' = FALSE
    /\ UNCHANGED <<ui, target, projectVars, recovery, answered, flushed, sender,
                   workerVars, fileVars, boundVars>>

(* flush before an update is installed and before the restart.             *)
FlushForUpdate ==
    /\ ui = "up"
    /\ Flush
    /\ flushed' = doc
    /\ UNCHANGED <<projectVars, recovery>>
    /\ TickAfter(dirty /\ token = lastToken)
    /\ UNCHANGED <<ui, target, answered, sender, workerVars, fileVars, boundVars>>

(* Flush, then delete the file of the last push; the worker may not have   *)
(* written that one yet.                                                   *)
LeaveProject ==
    /\ ui = "up" /\ switches < MaxSwitches
    /\ switches' = switches + 1
    /\ Flush
    /\ token' = 0 /\ flushed' = NoDoc /\ answered' = NoDoc

NewProject ==
    /\ LeaveProject
    /\ path' = Untitled /\ doc' = 0 /\ recovery' = Nowhere
    /\ auto' = Deleted(auto, pushed'.at)
    /\ TickAfter(dirty /\ token = lastToken)
    /\ UNCHANGED <<ui, target, sender, workerVars, saved, tmp, edits, saves, launches>>

OpenProject(p) ==
    /\ saved[p] \notin {NoDoc, Torn}
    /\ LeaveProject
    /\ path' = p /\ doc' = saved[p]
    /\ LET left == Deleted(auto, pushed'.at)
       IN  IF Offered(left, p)
           THEN recovery' = p /\ auto' = left
           ELSE recovery' = Nowhere /\ auto' = Deleted(left, p)
    /\ TickAfter(dirty /\ token = lastToken)
    /\ UNCHANGED <<ui, target, sender, workerVars, saved, tmp, edits, saves, launches>>

(* Save and Save As: std::fs::write truncates the file, then fills it.     *)
SaveBegins(p) ==
    /\ ui = "up" /\ saves < MaxSaves
    /\ saves' = saves + 1
    /\ ui' = "saving" /\ target' = p
    /\ saved' = [saved EXCEPT ![p] = Torn]
    /\ auto' = Older(auto, p) /\ tmp' = Older(tmp, p)
    /\ UNCHANGED <<projectVars, stateVars, handleVars, workerVars, edits, switches,
                   launches>>

Cleaned(files) == Deleted(Deleted(files, path), pushed.at)

SaveEnds ==
    /\ ui = "saving"
    /\ \/ /\ saved' = [saved EXCEPT ![target] = doc]
          /\ auto' = Cleaned(Older(auto, target)) /\ tmp' = Older(tmp, target)
          /\ path' = target
       \/ /\ "save" \in Faults
          /\ auto' = Older(auto, target) /\ tmp' = Older(tmp, target)
          /\ UNCHANGED <<saved, path>>
    /\ ui' = "up" /\ target' = Nowhere
    /\ UNCHANGED <<doc, token, lastToken, recovery>>
    /\ TickAfter(dirty)
    /\ UNCHANGED <<pushed, answered, flushed, handleVars, workerVars, boundVars>>

(* The recovery dialog. Restoring keeps the current path, resets the       *)
(* history and deletes the autosave; a file that does not load stays.      *)
Restore ==
    /\ ui = "up" /\ recovery # Nowhere
    /\ IF auto[recovery].doc \in {NoDoc, Torn}
       THEN UNCHANGED <<doc, token, auto>>
       ELSE /\ doc' = auto[recovery].doc /\ token' = 0
            /\ auto' = Deleted(auto, recovery)
    /\ recovery' = Nowhere /\ answered' = doc'
    /\ UNCHANGED lastToken
    /\ TickAfter(dirty)
    /\ UNCHANGED <<ui, target, path, pushed, flushed, handleVars, workerVars, saved,
                   tmp, boundVars>>

Discard ==
    /\ ui = "up" /\ recovery # Nowhere
    /\ auto' = Deleted(auto, recovery)
    /\ recovery' = Nowhere /\ answered' = doc
    /\ UNCHANGED <<token, lastToken>>
    /\ TickAfter(dirty)
    /\ UNCHANGED <<ui, target, path, doc, pushed, flushed, handleVars, workerVars,
                   saved, tmp, boundVars>>

(* Closing the window drops the handle: shutdown() tries to send a         *)
(* Shutdown, drops the sender and joins. Nothing is flushed.               *)
MutSenderKept == sender
SenderAfterShutdown == FALSE

CloseWindow ==
    /\ ui = "up"
    /\ ui' = "joining"
    /\ TrySend("shutdown")
    /\ sender' = SenderAfterShutdown
    /\ UNCHANGED <<target, projectVars, stateVars, slot, workerVars, fileVars,
                   boundVars>>

Joined ==
    /\ ui = "joining" /\ wpc = "exited"
    /\ ui' = "down"
    /\ UNCHANGED <<target, projectVars, stateVars, handleVars, workerVars, fileVars,
                   boundVars>>

(* The process dies; the files stay as they are.                           *)
Crash ==
    /\ ui \in {"up", "saving", "joining"}
    /\ ui' = "down" /\ wpc' = "dead"
    /\ UNCHANGED <<target, projectVars, stateVars, handleVars, wlast, wheld, written,
                   failed, fileVars, boundVars>>

(* The next start looks for the untitled autosave only.                    *)
Launch ==
    /\ ui = "down" /\ launches < MaxLaunches
    /\ launches' = launches + 1
    /\ ui' = "up" /\ target' = Nowhere
    /\ path' = Untitled /\ doc' = 0 /\ token' = 0
    /\ lastToken' = 0 /\ dirty' = FALSE /\ pushed' = NoSnap
    /\ recovery' = IF Offered(auto, Untitled) THEN Untitled ELSE Nowhere
    /\ answered' = NoDoc /\ flushed' = NoDoc
    /\ slot' = NoSnap /\ chan' = <<>> /\ sender' = TRUE
    /\ wpc' = "wait" /\ wlast' = FALSE /\ wheld' = NoSnap
    /\ written' = NoSnap /\ failed' = FALSE
    /\ UNCHANGED <<fileVars, edits, switches, saves>>

User ==
    \/ Edit \/ EditUnrecorded \/ FlushForUpdate \/ NewProject \/ Restore \/ Discard \/ CloseWindow
    \/ Launch
    \/ \E p \in Paths : OpenProject(p) \/ SaveBegins(p)

-----------------------------------------------------------------------------
(* The worker.                                                             *)

(* recv_timeout: a wake-up or the timeout drains the slot, a Shutdown or a *)
(* closed channel leaves the loop for the last drain.                      *)
Receive ==
    /\ wpc = "wait"
    /\ \/ /\ chan # <<>>
          /\ wlast' = (Head(chan) = "shutdown") /\ chan' = Tail(chan)
       \/ /\ chan = <<>>
          /\ wlast' = ~sender /\ chan' = chan
    /\ wpc' = "take"
    /\ UNCHANGED <<ui, target, projectVars, stateVars, slot, sender, wheld, written,
                   failed, fileVars, boundVars>>

\* The worker goes by the message it received, not by the state of the handle.
AfterWrite == IF wlast THEN "exited" ELSE "wait"

(* take() empties the slot: what is pushed during the write stays for the  *)
(* next turn. The drain after the loop is the one before the thread exits. *)
MutPeek == slot
SlotAfterTake == NoSnap

Take ==
    /\ wpc = "take"
    /\ wheld' = slot
    /\ slot' = SlotAfterTake
    /\ wpc' = IF slot = NoSnap THEN AfterWrite ELSE "truncate"
    /\ UNCHANGED <<ui, target, projectVars, stateVars, chan, sender, wlast, written,
                   failed, fileVars, boundVars>>

(* write_atomic: <dest>.tmp is truncated, then filled, then renamed.       *)
MutWriteInPlace == [auto EXCEPT ![wheld.at].doc = Torn]
AutoWhileWriting == auto

Truncate ==
    /\ wpc = "truncate"
    /\ tmp' = [tmp EXCEPT ![wheld.at] = [doc |-> Torn, newer |-> TRUE]]
    /\ auto' = AutoWhileWriting
    /\ wpc' = "fill"
    /\ UNCHANGED <<ui, target, projectVars, stateVars, handleVars, wlast, wheld,
                   written, failed, saved, boundVars>>

Fill ==
    /\ wpc = "fill"
    /\ tmp' = [tmp EXCEPT ![wheld.at] = [doc |-> wheld.doc, newer |-> TRUE]]
    /\ wpc' = "rename"
    /\ UNCHANGED <<ui, target, projectVars, stateVars, handleVars, wlast, wheld,
                   written, failed, saved, auto, boundVars>>

Rename ==
    /\ wpc = "rename"
    /\ auto' = [auto EXCEPT ![wheld.at] = tmp[wheld.at]]
    /\ tmp' = Deleted(tmp, wheld.at)
    /\ written' = wheld /\ failed' = FALSE /\ wheld' = NoSnap
    /\ wpc' = AfterWrite
    /\ UNCHANGED <<ui, target, projectVars, stateVars, handleVars, wlast, saved,
                   boundVars>>

(* create_dir_all, write or rename fails: logged, the snapshot is gone.    *)
WriteFails ==
    /\ "autosave" \in Faults
    /\ wpc \in {"truncate", "fill", "rename"}
    /\ failed' = TRUE /\ wheld' = NoSnap
    /\ wpc' = AfterWrite
    /\ UNCHANGED <<ui, target, projectVars, stateVars, handleVars, wlast, written,
                   fileVars, boundVars>>

Worker == Receive \/ Take \/ Truncate \/ Fill \/ Rename \/ WriteFails

-----------------------------------------------------------------------------
Next == User \/ AutosaveDue \/ SaveEnds \/ Joined \/ Crash \/ Worker

(* Frames keep coming and the threads keep running; the user owes nothing. *)
Fairness ==
    /\ WF_vars(AutosaveDue) /\ WF_vars(SaveEnds) /\ WF_vars(Joined)
    /\ WF_vars(Worker)

Spec == Init /\ [][Next]_vars
FairSpec == Spec /\ Fairness

-----------------------------------------------------------------------------
(* Properties.                                                             *)

Docs == 0 .. MaxEdits
Snapshots == [at : Places, doc : Docs] \cup {NoSnap}
Files == [doc : Docs \cup {NoDoc, Torn}, newer : BOOLEAN]

(* Every variable stays in its domain; the channel holds one message.      *)
TypeOK ==
    /\ ui \in {"up", "saving", "joining", "down"}
    /\ target \in Paths \cup {Nowhere} /\ (ui = "saving" => target \in Paths)
    /\ path \in Places /\ doc \in Docs /\ token \in Docs /\ lastToken \in Docs
    /\ dirty \in BOOLEAN /\ pushed \in Snapshots
    /\ recovery \in Places \cup {Nowhere}
    /\ answered \in Docs \cup {NoDoc} /\ flushed \in Docs \cup {NoDoc}
    /\ slot \in Snapshots /\ sender \in BOOLEAN
    /\ chan \in {<<>>, <<"wake">>, <<"shutdown">>}
    /\ wpc \in {"wait", "take", "truncate", "fill", "rename", "exited", "dead"}
    /\ wlast \in BOOLEAN /\ wheld \in Snapshots /\ written \in Snapshots
    /\ (wpc \in {"truncate", "fill", "rename"} => wheld # NoSnap)
    /\ failed \in BOOLEAN
    /\ saved \in [Paths -> Docs \cup {NoDoc, Torn}]
    /\ auto \in [Places -> Files] /\ tmp \in [Places -> Files]
    /\ edits \in 0 .. MaxEdits /\ switches \in 0 .. MaxSwitches
    /\ saves \in 0 .. MaxSaves /\ launches \in 0 .. MaxLaunches

(* Whenever the process dies, an autosave file is a whole snapshot         *)
(* (autosave.rs: "never in a partially-written state on disk").            *)
AutosaveNeverTorn == \A at \in Places : auto[at].doc # Torn

Quiet == slot = NoSnap /\ wpc \in {"wait", "exited"}

(* However pushes, wake-ups, timeouts and writes interleave, a worker that *)
(* waits with the slot empty has written the NEWEST pushed snapshot, unless *)
(* that write failed; and so has a worker that exited, whatever was pushed *)
(* between its last wake-up and the shutdown.                              *)
NewestIsWritten == Quiet \/ wpc = "exited" => written = pushed \/ failed

Recoverable ==
    \/ path \in Paths /\ saved[path] = doc
    \/ Offered(auto, path) /\ auto[path].doc = doc

(* The work can be lost where the file system failed, and where no edit     *)
(* was recorded since its last change was not, or since the recovery dialog *)
(* was answered over it: the answer deletes an autosave, and edits made     *)
(* behind the dialog are noticed only if the token has not come back to     *)
(* that of the last push.                                                  *)
Excused ==
    \/ doc = 0
    \/ failed
    \/ path \in Paths /\ saved[path] = Torn
    \/ doc = answered

(* When the coordinator is not waiting to autosave and the worker has      *)
(* nothing left to do, a crash loses nothing: the open project's content   *)
(* is in its file or in an autosave that the next start, or the next open, *)
(* will offer.                                                             *)
WorkAtRestIsRecoverable ==
    ui = "up" /\ ~dirty /\ recovery = Nowhere /\ Quiet => Recoverable \/ Excused

(* flush() "guarantees the latest state is saved before we lose it".       *)
FlushKeepsWork ==
    ui = "up" /\ doc = flushed /\ Quiet => Recoverable \/ Excused

(* shutdown() always returns.                                              *)
ShutdownReturns == ui = "joining" ~> ui = "down"

(* A pushed snapshot does not stay in the slot for ever.                   *)
SlotIsEmptied == slot # NoSnap ~> (slot = NoSnap \/ ui = "down")
=============================================================================
