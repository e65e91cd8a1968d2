-------------------------- MODULE Autosave_proofs ---------------------------
(***************************************************************************)
(* For every number of project files, edits, saves, switches and restarts  *)
(* and whatever file operations fail: no autosave file is ever torn, the   *)
(* newest pushed snapshot is the one that is written, and work the editor  *)
(* thinks safe can be recovered.                                           *)
(***************************************************************************)
EXTENDS Autosave, TLAPS

-----------------------------------------------------------------------------
(* The inductive invariant *)

Running == ui \in {"up", "saving"}
Writing == wpc \in {"truncate", "fill", "rename"}

\* The token counts edits of this session only.
Domains == TypeOK /\ token <= edits

\* The newest snapshot is in the slot, else held by the worker, else written.
Newest ==
    /\ slot # NoSnap => slot = pushed
    /\ slot = NoSnap /\ Writing => wheld = pushed
    /\ slot = NoSnap /\ wpc \in {"wait", "take", "exited"} => written = pushed \/ failed

\* What is renamed over the autosave was filled.
WholeTmp == wpc = "rename" => tmp[wheld.at].doc = wheld.doc

\* The last drain comes after the last push.
LastDrain ==
    /\ Running => sender
    /\ wlast \/ chan = <<"shutdown">> => ~sender
    /\ wpc = "exited" => wlast
    /\ wpc = "exited" \/ (wlast /\ Writing) => slot = NoSnap

\* A coordinator that waits for nothing has pushed the current token, and a
\* file that is being saved is cut off.
Noticed ==
    /\ Running /\ ~dirty /\ recovery = Nowhere => token = lastToken
    /\ ui = "saving" => saved[target] = Torn

\* The autosave the worker is about to put in place will be offered.
WillBeOffered(at) ==
    wpc = "rename" => at = Untitled \/ saved[at] = NoDoc \/ tmp[at].newer

\* The content is where it can be found, or is on its way there.
Kept ==
    \/ doc = 0 \/ doc = answered
    \/ path \in Paths /\ saved[path] \in {doc, Torn}
    \/ /\ pushed = [at |-> path, doc |-> doc]
       /\ \/ slot # NoSnap
          \/ Writing /\ WillBeOffered(path)
          \/ ~Writing /\ (failed \/ (Offered(auto, path) /\ auto[path].doc = doc))

KeptAtRest == Running /\ ~dirty /\ recovery = Nowhere => Kept

IInv ==
    /\ Domains /\ Newest /\ WholeTmp /\ LastDrain /\ AutosaveNeverTorn
    /\ Noticed /\ KeptAtRest

-----------------------------------------------------------------------------
(* Files and snapshots *)

\* Deleting and saving change no file's type; deleting never tears a file.
LEMMA FilesKept ==
    ASSUME NEW files \in [Places -> Files], NEW at
    PROVE  /\ Deleted(files, at) \in [Places -> Files]
           /\ Older(files, at) \in [Places -> Files]
           /\ \A a \in Places : Deleted(files, at)[a] = IF a = at THEN Absent ELSE files[a]
           /\ \A a \in Places : Older(files, at)[a].doc = files[a].doc
           /\ \A a \in Places \ {at} : Older(files, at)[a] = files[a]
<1>1. Absent \in Files
    BY DEF Absent, Files, NoDoc
<1>2. ASSUME NEW f \in Files
      PROVE  [f EXCEPT !.newer = FALSE] \in Files /\ [f EXCEPT !.newer = FALSE].doc = f.doc
    BY DEF Files
<1> QED  BY <1>1, <1>2 DEF Deleted, Older

\* A snapshot that is not NoSnap has a place and a content.
LEMMA SnapshotFields ==
    ASSUME NEW s \in Snapshots, s # NoSnap
    PROVE  s.at \in Places /\ s.doc \in Docs
BY DEF Snapshots

LEMMA SnapshotIs ==
    ASSUME NEW at \in Places, NEW d \in Docs
    PROVE  /\ [at |-> at, doc |-> d] \in Snapshots
           /\ [at |-> at, doc |-> d] # NoSnap
BY AutosaveAssumption DEF Snapshots, NoSnap, Docs, NoDoc

\* The channel has room for one message: to receive it is to empty the channel.
LEMMA OneMessage ==
    ASSUME NEW s, s \in {<<>>, <<"wake">>, <<"shutdown">>}, s # <<>>
    PROVE  Tail(s) = <<>>
<1>1. Tail(<<"wake">>) = <<>> /\ Tail(<<"shutdown">>) = <<>>
    OBVIOUS
<1> QED  BY <1>1

-----------------------------------------------------------------------------
(* The domains *)

LEMMA InitDomains == Init => Domains
<1> SUFFICES ASSUME Init  PROVE Domains
    OBVIOUS
<1>1. Absent \in Files
    BY DEF Absent, Files, NoDoc
<1>2. auto \in [Places -> Files] /\ tmp \in [Places -> Files]
    BY <1>1 DEF Init
<1>3. 0 \in Docs /\ NoSnap \in Snapshots /\ Untitled \in Places
    BY AutosaveAssumption DEF Docs, Snapshots, Places
<1>4. saved \in [Paths -> Docs \cup {NoDoc, Torn}]
    BY DEF Init
<1>5. chan \in {<<>>, <<"wake">>, <<"shutdown">>}
    BY DEF Init
<1>6. /\ edits \in 0 .. MaxEdits /\ switches \in 0 .. MaxSwitches
      /\ saves \in 0 .. MaxSaves /\ launches \in 0 .. MaxLaunches
      /\ token <= edits
    BY AutosaveAssumption DEF Init
<1>7. /\ ui = "up" /\ target = Nowhere /\ wpc = "wait"
      /\ {dirty, sender, wlast, failed} \subseteq BOOLEAN
    BY DEF Init
<1>8. /\ path \in Places /\ {doc, token, lastToken} \subseteq Docs
      /\ {pushed, slot, wheld, written} \subseteq Snapshots
      /\ recovery = Nowhere /\ answered = NoDoc /\ flushed = NoDoc
    BY <1>3 DEF Init
<1> QED
    BY <1>2, <1>4, <1>5, <1>6, <1>7, <1>8 DEF Domains, TypeOK

LEMMA UserKeepsDomains ==
    ASSUME Domains, User \/ AutosaveDue \/ SaveEnds  PROVE Domains'
<1> USE AutosaveAssumption
<1>0. TypeOK /\ token <= edits /\ path \in Places /\ doc \in Docs
    BY DEF Domains, TypeOK
<1>1. NoSnap \in Snapshots /\ [at |-> path, doc |-> doc] \in Snapshots
    BY <1>0, SnapshotIs DEF Snapshots
<1>2. CASE Edit
    BY <1>0, <1>2
    DEF Edit, TickAfter, TokenMoved, Domains, TypeOK, Docs, handleVars, workerVars, fileVars
<1>u. CASE EditUnrecorded
    BY <1>0, <1>u
    DEF EditUnrecorded, TickAfter, TokenMoved, Domains, TypeOK, Docs, handleVars, workerVars, fileVars
<1>3. CASE FlushForUpdate
    BY <1>0, <1>1, <1>3
    DEF FlushForUpdate, Flush, PushSnapshot, TrySend, Replacing, TickAfter, TokenMoved, Domains,
        TypeOK, projectVars, workerVars, fileVars, boundVars
<1>4. CASE AutosaveDue
    BY <1>0, <1>1, <1>4
    DEF AutosaveDue, PushSnapshot, TrySend, Replacing, Domains, TypeOK, projectVars, workerVars,
        fileVars, boundVars
<1>5. ASSUME LeaveProject
      PROVE  /\ pushed' \in Snapshots /\ slot' \in Snapshots /\ lastToken' \in Docs
             /\ chan' \in {<<>>, <<"wake">>, <<"shutdown">>}
             /\ ui = "up" /\ token' = 0 /\ 0 \in Docs /\ flushed' = NoDoc /\ answered' = NoDoc
             /\ switches' \in 0 .. MaxSwitches
    BY <1>0, <1>1, <1>5
    DEF LeaveProject, Flush, PushSnapshot, TrySend, Replacing, TypeOK, Docs
<1>6. CASE NewProject
    <2>1. auto' \in [Places -> Files]
        BY <1>0, <1>6, FilesKept DEF NewProject, TypeOK
    <2>2. LeaveProject /\ Untitled \in Places
        BY <1>6 DEF NewProject, Places
    <2> QED
        BY <1>0, <1>5, <1>6, <2>1, <2>2
        DEF NewProject, TickAfter, TokenMoved, Domains, TypeOK, workerVars
<1>7. ASSUME NEW p \in Paths, OpenProject(p)  PROVE Domains'
    <2>1. p \in Places /\ saved[p] \in Docs /\ LeaveProject
        BY <1>0, <1>7 DEF OpenProject, Places, TypeOK
    <2> DEFINE left == Deleted(auto, pushed'.at)
    <2>2. left \in [Places -> Files]
        BY <1>0, FilesKept DEF TypeOK
    <2>3. Deleted(left, p) \in [Places -> Files]
        BY <2>2, FilesKept
    <2>4. auto' \in [Places -> Files] /\ recovery' \in Places \cup {Nowhere}
        BY <1>7, <2>1, <2>2, <2>3 DEF OpenProject
    <2> QED
        BY <1>0, <1>5, <1>7, <2>1, <2>4
        DEF OpenProject, TickAfter, TokenMoved, Domains, TypeOK, workerVars
<1>8. ASSUME NEW p \in Paths, SaveBegins(p)  PROVE Domains'
    <2>1. auto' \in [Places -> Files] /\ tmp' \in [Places -> Files]
        BY <1>0, <1>8, FilesKept DEF SaveBegins, TypeOK
    <2>2. saved' \in [Paths -> Docs \cup {NoDoc, Torn}]
        BY <1>0, <1>8 DEF SaveBegins, TypeOK
    <2> QED
        BY <1>0, <1>8, <2>1, <2>2
        DEF SaveBegins, Domains, TypeOK, projectVars, stateVars, handleVars, workerVars
<1>9. CASE SaveEnds
    <2>1. tmp' \in [Places -> Files] /\ Older(auto, target) \in [Places -> Files]
        BY <1>0, <1>9, FilesKept DEF SaveEnds, TypeOK
    <2>2. Cleaned(Older(auto, target)) \in [Places -> Files]
        BY <2>1, FilesKept DEF Cleaned
    <2>3. target \in Paths /\ target \in Places
        BY <1>0, <1>9 DEF SaveEnds, TypeOK, Places
    <2>4. auto' \in [Places -> Files] /\ path' \in Places
        BY <1>0, <1>9, <2>1, <2>2, <2>3 DEF SaveEnds
    <2>5. saved' \in [Paths -> Docs \cup {NoDoc, Torn}]
        BY <1>0, <1>9, <2>3 DEF SaveEnds, TypeOK
    <2> QED
        BY <1>0, <1>9, <2>1, <2>4, <2>5
        DEF SaveEnds, TickAfter, TokenMoved, Domains, TypeOK, handleVars, workerVars, boundVars
<1>10. CASE Restore
    <2>1. recovery \in Places
        BY <1>0, <1>10 DEF Restore, TypeOK
    <2>2. auto' \in [Places -> Files]
        BY <1>0, <1>10, FilesKept DEF Restore, TypeOK
    <2>3. auto[recovery].doc \in Docs \cup {NoDoc, Torn}
        BY <1>0, <2>1 DEF TypeOK, Files
    <2>4. doc' \in Docs /\ token' \in Docs /\ token' <= edits
        BY <1>0, <1>10, <2>3 DEF Restore, TypeOK, Docs
    <2> QED
        BY <1>0, <1>10, <2>2, <2>4
        DEF Restore, TickAfter, TokenMoved, Domains, TypeOK, handleVars, workerVars, boundVars
<1>11. CASE Discard
    <2>1. auto' \in [Places -> Files]
        BY <1>0, <1>11, FilesKept DEF Discard, TypeOK
    <2> QED
        BY <1>0, <1>11, <2>1
        DEF Discard, TickAfter, TokenMoved, Domains, TypeOK, handleVars, workerVars, boundVars
<1>12. CASE CloseWindow
    BY <1>0, <1>12, ZenonT(40)
    DEF CloseWindow, TrySend, SenderAfterShutdown, Domains, TypeOK, projectVars, stateVars,
        workerVars, fileVars, boundVars
<1>13. CASE Launch
    <2>1. 0 \in Docs /\ Untitled \in Places
        BY DEF Docs, Places
    <2>2. chan' \in {<<>>, <<"wake">>, <<"shutdown">>}
        BY <1>13 DEF Launch
    <2>3. /\ ui' = "up" /\ target' = Nowhere /\ wpc' = "wait"
          /\ {dirty', sender', wlast', failed'} \subseteq BOOLEAN
          /\ path' \in Places /\ {doc', token', lastToken'} \subseteq Docs
          /\ {pushed', slot', wheld', written'} \subseteq Snapshots
          /\ recovery' \in Places \cup {Nowhere} /\ answered' = NoDoc /\ flushed' = NoDoc
        BY <1>1, <1>13, <2>1 DEF Launch
    <2>4. /\ launches' \in 0 .. MaxLaunches /\ token' <= edits'
          /\ UNCHANGED <<fileVars, edits, switches, saves>>
        BY <1>0, <1>13 DEF Launch, TypeOK
    <2> QED
        BY <1>0, <2>2, <2>3, <2>4 DEF Domains, TypeOK, fileVars
<1> QED
    BY <1>2, <1>u, <1>3, <1>4, <1>6, <1>7, <1>8, <1>9, <1>10, <1>11, <1>12, <1>13 DEF User

LEMMA WorkerKeepsDomains ==
    ASSUME Domains, Worker  PROVE Domains'
<1>0. TypeOK
    BY DEF Domains
<1>1. CASE Receive
    <2>1. chan' \in {<<>>, <<"wake">>, <<"shutdown">>}
        <3>1. CASE chan = <<>>
            BY <1>1, <3>1 DEF Receive
        <3>2. CASE chan # <<>>
            <4>1. chan \in {<<>>, <<"wake">>, <<"shutdown">>}
                BY <1>0 DEF TypeOK
            <4>2. Tail(chan) = <<>>
                BY <3>2, <4>1, OneMessage
            <4> QED  BY <1>1, <3>2, <4>2 DEF Receive
        <3> QED  BY <3>1, <3>2
    <2> QED
        BY <1>1, <2>1, ZenonT(40)
        DEF Receive, Domains, TypeOK, projectVars, stateVars, fileVars, boundVars
<1>2. CASE Take
    BY <1>2
    DEF Take, SlotAfterTake, AfterWrite, Domains, TypeOK, Snapshots, projectVars, stateVars,
        fileVars, boundVars
<1>3. CASE Truncate \/ Fill
    <2>1. wheld.at \in Places /\ wheld.doc \in Docs
        BY <1>0, <1>3, SnapshotFields DEF Truncate, Fill, TypeOK
    <2>2. /\ [doc |-> Torn, newer |-> TRUE] \in Files
          /\ [doc |-> wheld.doc, newer |-> TRUE] \in Files
        BY <2>1 DEF Files
    <2>3. tmp' \in [Places -> Files]
        BY <1>0, <1>3, <2>1, <2>2 DEF Truncate, Fill, TypeOK
    <2>4. auto' \in [Places -> Files]
        BY <1>0, <1>3 DEF Truncate, Fill, AutoWhileWriting, TypeOK
    <2> QED
        BY <1>3, <2>3, <2>4
        DEF Truncate, Fill, Domains, TypeOK, projectVars, stateVars, handleVars, boundVars
<1>4. CASE Rename
    <2>1. wheld.at \in Places /\ NoSnap \in Snapshots
        BY <1>0, <1>4, SnapshotFields DEF Rename, TypeOK, Snapshots
    <2>2. auto' \in [Places -> Files] /\ tmp' \in [Places -> Files]
        BY <1>0, <1>4, <2>1, FilesKept DEF Rename, TypeOK
    <2> QED
        BY <1>4, <2>1, <2>2, ZenonT(40)
        DEF Rename, AfterWrite, Domains, TypeOK, projectVars, stateVars, handleVars, boundVars
<1>5. CASE WriteFails
    BY <1>5
    DEF WriteFails, AfterWrite, Domains, TypeOK, Snapshots, projectVars, stateVars, handleVars,
        fileVars, boundVars
<1> QED  BY <1>1, <1>2, <1>3, <1>4, <1>5 DEF Worker

LEMMA NextKeepsDomains ==
    ASSUME Domains, [Next]_vars  PROVE Domains'
<1>1. CASE Joined \/ Crash
    BY <1>1
    DEF Joined, Crash, Domains, TypeOK, projectVars, stateVars, handleVars, workerVars, fileVars,
        boundVars
<1>2. CASE UNCHANGED vars
    BY <1>2
    DEF vars, Domains, TypeOK, projectVars, stateVars, handleVars, workerVars, fileVars, boundVars
<1> QED  BY <1>1, <1>2, UserKeepsDomains, WorkerKeepsDomains DEF Next

-----------------------------------------------------------------------------
(* The pipeline of snapshots *)

\* What a push, or a flush that finds nothing to push, does to it.
LEMMA FlushPushes ==
    ASSUME Domains, Flush
    PROVE  /\ chan' = chan \/ chan' = <<"wake">>
           /\ <<pushed, slot>>' = <<pushed, slot>> \/ (pushed' = slot' /\ slot' # NoSnap)
<1>1. path \in Places /\ doc \in Docs
    BY DEF Domains, TypeOK
<1> QED
    BY <1>1, SnapshotIs, Zenon DEF Flush, PushSnapshot, Replacing, TrySend

LEMMA UserKeepsPipeline ==
    ASSUME Domains, Newest, WholeTmp, LastDrain, User \/ AutosaveDue \/ SaveEnds
    PROVE  Newest' /\ WholeTmp' /\ LastDrain'
<1>0. /\ TypeOK /\ path \in Places /\ doc \in Docs
      /\ tmp \in [Places -> Files] /\ wheld \in Snapshots
      /\ wpc = "rename" => wheld.at \in Places
    BY SnapshotFields DEF Domains, TypeOK
\* The steps that leave the worker, the handle and the last push alone.
<1>1. ASSUME UNCHANGED <<handleVars, workerVars, pushed>>, ui = "up" \/ ui = "saving",
             \A at \in Places : tmp'[at].doc = tmp[at].doc
      PROVE  Newest' /\ WholeTmp' /\ LastDrain'
    BY <1>0, <1>1
    DEF handleVars, workerVars, Newest, WholeTmp, LastDrain, Writing, Running
<1>2. CASE Edit \/ EditUnrecorded \/ Restore \/ Discard
    BY <1>1, <1>2 DEF Edit, EditUnrecorded, Restore, Discard, fileVars
<1>3. CASE SaveEnds
    <2>1. tmp' = Older(tmp, target)
        BY <1>3 DEF SaveEnds
    <2>2. UNCHANGED <<handleVars, workerVars, pushed>> /\ ui = "saving"
        BY <1>3 DEF SaveEnds
    <2> QED  BY <1>0, <1>1, <2>1, <2>2, FilesKept
<1>4. ASSUME NEW p \in Paths, SaveBegins(p)  PROVE Newest' /\ WholeTmp' /\ LastDrain'
    <2>1. tmp' = Older(tmp, p)
        BY <1>4 DEF SaveBegins
    <2>2. UNCHANGED <<handleVars, workerVars, pushed>> /\ ui = "up"
        BY <1>4 DEF SaveBegins, stateVars
    <2> QED  BY <1>0, <1>1, <2>1, <2>2, FilesKept
\* The steps that push, or may.
<1>5. ASSUME UNCHANGED <<sender, workerVars, tmp>>, ui = "up", ui' = "up",
             Flush \/ PushSnapshot
      PROVE  Newest' /\ WholeTmp' /\ LastDrain'
    <2>1. /\ chan' = chan \/ chan' = <<"wake">>
          /\ <<pushed, slot>>' = <<pushed, slot>> \/ (pushed' = slot' /\ slot' # NoSnap)
        BY <1>0, <1>5, SnapshotIs, FlushPushes DEF PushSnapshot, Replacing, TrySend
    <2>2. sender /\ ~wlast /\ chan # <<"shutdown">> /\ wpc # "exited"
        BY <1>5 DEF LastDrain, Running
    <2>3. chan' # <<"shutdown">>
        BY <2>1, <2>2
    <2> QED
        BY <1>5, <2>1, <2>2, <2>3
        DEF workerVars, Newest, WholeTmp, LastDrain, Writing, Running
<1>6. CASE AutosaveDue \/ FlushForUpdate
    BY <1>5, <1>6 DEF AutosaveDue, FlushForUpdate, fileVars
<1>7. CASE NewProject \/ \E p \in Paths : OpenProject(p)
    BY <1>5, <1>7 DEF NewProject, OpenProject, LeaveProject
<1>8. CASE CloseWindow
    BY <1>8
    DEF CloseWindow, SenderAfterShutdown, TrySend, stateVars, workerVars, fileVars, Newest,
        WholeTmp, LastDrain, Writing, Running
<1>9. CASE Launch
    BY <1>9 DEF Launch, Newest, WholeTmp, LastDrain, Writing, Running
<1> QED
    BY <1>2, <1>3, <1>4, <1>6, <1>7, <1>8, <1>9 DEF User

LEMMA WorkerKeepsPipeline ==
    ASSUME Domains, Newest, WholeTmp, LastDrain, Worker
    PROVE  Newest' /\ WholeTmp' /\ LastDrain'
<1>0. TypeOK /\ tmp \in [Places -> Files]
    BY DEF Domains, TypeOK
<1>1. CASE Receive
    <2>1. chan \in {<<>>, <<"wake">>, <<"shutdown">>}
        BY <1>0 DEF TypeOK
    <2>2. /\ chan = <<>> => chan' = <<>> /\ wlast' = ~sender
          /\ chan # <<>> => chan' = <<>> /\ wlast' = (Head(chan) = "shutdown")
        BY <1>1, <2>1, OneMessage DEF Receive
    <2>3. wlast' => ~sender
        <3>1. CASE chan = <<>>
            BY <2>2, <3>1
        <3>2. CASE chan = <<"wake">>
            <4>1. Head(<<"wake">>) = "wake"
                OBVIOUS
            <4> QED  BY <2>2, <3>2, <4>1
        <3>3. CASE chan = <<"shutdown">>
            BY <3>3 DEF LastDrain
        <3> QED  BY <2>1, <3>1, <3>2, <3>3
    <2>4. chan' = <<>> /\ <<>> # <<"shutdown">>
        BY <2>2
    <2> QED
        BY <1>1, <2>3, <2>4
        DEF Receive, stateVars, fileVars, Newest, WholeTmp, LastDrain, Writing, Running
<1>2. CASE Take
    BY <1>2
    DEF Take, SlotAfterTake, AfterWrite, stateVars, fileVars, Newest, WholeTmp, LastDrain, Writing,
        Running
<1>3. CASE Truncate \/ Fill
    <2>1. wpc' = "rename" => tmp'[wheld.at].doc = wheld.doc
        <3>1. wheld.at \in Places
            BY <1>0, <1>3, SnapshotFields DEF Truncate, Fill, TypeOK
        <3> QED  BY <1>0, <1>3, <3>1 DEF Truncate, Fill
    <2> QED
        BY <1>3, <2>1
        DEF Truncate, Fill, stateVars, handleVars, Newest, WholeTmp, LastDrain, Writing, Running
<1>4. CASE Rename \/ WriteFails
    BY <1>4
    DEF Rename, WriteFails, AfterWrite, stateVars, handleVars, fileVars, Newest, WholeTmp,
        LastDrain, Writing, Running
<1> QED  BY <1>1, <1>2, <1>3, <1>4 DEF Worker

LEMMA NextKeepsPipeline ==
    ASSUME Domains, Newest, WholeTmp, LastDrain, [Next]_vars
    PROVE  Newest' /\ WholeTmp' /\ LastDrain'
<1>1. CASE Joined \/ Crash
    BY <1>1
    DEF Joined, Crash, stateVars, handleVars, workerVars, fileVars, Newest, WholeTmp, LastDrain,
        Writing, Running
<1>2. CASE UNCHANGED vars
    BY <1>2
    DEF vars, stateVars, handleVars, workerVars, fileVars, Newest, WholeTmp, LastDrain, Writing,
        Running
<1> QED  BY <1>1, <1>2, UserKeepsPipeline, WorkerKeepsPipeline DEF Next

-----------------------------------------------------------------------------
(* The autosave files *)

LEMMA NextKeepsFilesWhole ==
    ASSUME Domains, WholeTmp, AutosaveNeverTorn, [Next]_vars
    PROVE  AutosaveNeverTorn'
<1>0. TypeOK /\ auto \in [Places -> Files] /\ Absent.doc # Torn
    BY DEF Domains, TypeOK, Absent, NoDoc, Torn
<1> DEFINE Whole(files) == \A at \in Places : files[at].doc # Torn
<1>1. ASSUME NEW files \in [Places -> Files], Whole(files), NEW at
      PROVE  /\ Deleted(files, at) \in [Places -> Files] /\ Whole(Deleted(files, at))
             /\ Older(files, at) \in [Places -> Files] /\ Whole(Older(files, at))
    BY <1>0, <1>1, FilesKept
<1>2. Whole(auto)
    BY DEF AutosaveNeverTorn
<1>3. SUFFICES Whole(auto')
    BY DEF AutosaveNeverTorn
<1> HIDE DEF Whole
<1>4. CASE UNCHANGED auto
    BY <1>2, <1>4
<1>5. CASE NewProject \/ Restore \/ Discard
    BY <1>0, <1>1, <1>2, <1>5 DEF NewProject, Restore, Discard
<1>6. CASE \E p \in Paths : OpenProject(p)
    BY <1>0, <1>1, <1>2, <1>6 DEF OpenProject
<1>7. CASE SaveEnds \/ \E p \in Paths : SaveBegins(p)
    BY <1>0, <1>1, <1>2, <1>7 DEF SaveEnds, SaveBegins, Cleaned
<1>8. CASE Rename
    <2>1. wheld.at \in Places /\ wheld.doc \in Docs
        BY <1>0, <1>8, SnapshotFields DEF Rename, TypeOK
    <2>2. tmp[wheld.at].doc # Torn
        BY <1>8, <2>1, AutosaveAssumption DEF Rename, WholeTmp, Docs, Torn
    <2> QED  BY <1>0, <1>2, <1>8, <2>1, <2>2 DEF Rename, Whole
<1> QED
    BY <1>4, <1>5, <1>6, <1>7, <1>8
    DEF Next, User, Worker, vars, fileVars, Edit, EditUnrecorded, FlushForUpdate, CloseWindow,
        Launch, AutosaveDue, Joined, Crash, Receive, Take, Truncate, AutoWhileWriting, Fill, WriteFails

-----------------------------------------------------------------------------
(* Work at rest *)

LEMMA NextKeepsNoticed ==
    ASSUME Domains, Noticed, [Next]_vars  PROVE Noticed'
<1>0. TypeOK /\ saved \in [Paths -> Docs \cup {NoDoc, Torn}] /\ dirty \in BOOLEAN
    BY DEF Domains, TypeOK
<1>1. ASSUME NEW b \in BOOLEAN, TickAfter(b), ui' = "up"  PROVE Noticed'
    BY <1>1 DEF TickAfter, TokenMoved, Noticed
<1>2. CASE Edit \/ EditUnrecorded \/ FlushForUpdate \/ NewProject \/ SaveEnds \/ Restore \/ Discard
    <2>1. ui' = "up" /\ (TickAfter(dirty) \/ TickAfter(dirty /\ token = lastToken))
        BY <1>2
        DEF Edit, EditUnrecorded, FlushForUpdate, NewProject, LeaveProject, SaveEnds, Restore, Discard
    <2> QED  BY <1>0, <1>1, <2>1
<1>3. ASSUME NEW p \in Paths, OpenProject(p)  PROVE Noticed'
    <2>1. ui' = "up" /\ TickAfter(dirty /\ token = lastToken)
        BY <1>3 DEF OpenProject, LeaveProject
    <2> QED  BY <1>0, <1>1, <2>1
<1>4. CASE AutosaveDue
    BY <1>4 DEF AutosaveDue, PushSnapshot, projectVars, Noticed
<1>5. ASSUME NEW p \in Paths, SaveBegins(p)  PROVE Noticed'
    BY <1>0, <1>5 DEF SaveBegins, projectVars, stateVars, Noticed, Running
<1>6. CASE CloseWindow \/ Launch \/ Joined \/ Crash
    BY <1>6 DEF CloseWindow, Launch, Joined, Crash, Noticed, Running
<1>7. CASE UNCHANGED <<ui, target, projectVars, stateVars, saved>>
    BY <1>7 DEF projectVars, stateVars, Noticed, Running
<1>8. CASE Worker
    BY <1>7, <1>8
    DEF Worker, Receive, Take, Truncate, Fill, Rename, WriteFails, projectVars, stateVars, fileVars
<1>9. CASE UNCHANGED vars
    BY <1>7, <1>9 DEF vars, fileVars
<1> QED
    BY <1>2, <1>3, <1>4, <1>5, <1>6, <1>8, <1>9 DEF Next, User

\* A push carries the content, and so does a flush that pushes; what is not
\* pushed is as it was.
LEMMA PushedContent ==
    ASSUME Domains, PushSnapshot
    PROVE  pushed' = [at |-> path, doc |-> doc] /\ slot' # NoSnap
<1>1. path \in Places /\ doc \in Docs
    BY DEF Domains, TypeOK
<1> QED  BY <1>1, SnapshotIs DEF PushSnapshot, Replacing

LEMMA UserKeepsWork ==
    ASSUME Domains, Newest, LastDrain, Noticed, KeptAtRest, User \/ AutosaveDue \/ SaveEnds
    PROVE  KeptAtRest'
<1>0. /\ TypeOK /\ path \in Places /\ doc \in Docs /\ token \in Int
      /\ saved \in [Paths -> Docs \cup {NoDoc, Torn}]
      /\ auto \in [Places -> Files] /\ tmp \in [Places -> Files]
    BY DEF Domains, TypeOK, Docs
<1> SUFFICES ASSUME Running', ~dirty', recovery' = Nowhere  PROVE Kept'
    BY DEF KeptAtRest
\* An edit moves the token away from that of the last push.
<1>1. CASE Edit
    <2>1. ~dirty /\ recovery = Nowhere /\ token' = lastToken /\ token' = token + 1 /\ Running
        BY <1>1 DEF Edit, TickAfter, TokenMoved, Running
    <2> QED  BY <1>0, <2>1 DEF Noticed
<1>u. CASE EditUnrecorded
    BY <1>0, <1>u DEF EditUnrecorded, Kept
<1>2. CASE AutosaveDue
    <2>1. /\ pushed' = [at |-> path, doc |-> doc] /\ slot' # NoSnap
          /\ UNCHANGED <<path, doc>>
        BY <1>2, PushedContent DEF AutosaveDue, projectVars
    <2> QED  BY <2>1 DEF Kept
<1>3. CASE FlushForUpdate
    <2>1. CASE token # lastToken
        <3>1. /\ pushed' = [at |-> path, doc |-> doc] /\ slot' # NoSnap
              /\ UNCHANGED <<path, doc>>
            BY <1>3, <2>1, PushedContent DEF FlushForUpdate, Flush, projectVars
        <3> QED  BY <3>1 DEF Kept
    <2>2. CASE token = lastToken
        <3>1. ~dirty /\ recovery = Nowhere /\ Running
            BY <1>3, <2>2 DEF FlushForUpdate, TickAfter, Running
        <3> QED
            BY <1>3, <2>2, <3>1
            DEF FlushForUpdate, Flush, projectVars, workerVars, fileVars, KeptAtRest, Kept, Writing,
                WillBeOffered, Offered
    <2> QED  BY <2>1, <2>2
<1>4. CASE NewProject \/ Launch
    BY <1>4 DEF NewProject, Launch, Kept
<1>5. ASSUME NEW p \in Paths, OpenProject(p)  PROVE Kept'
    BY <1>5 DEF OpenProject, Kept
<1>6. CASE Restore \/ Discard
    BY <1>6 DEF Restore, Discard, Kept
\* A save touches the project's own file, or nothing the project needs.
<1>7. ASSUME NEW p \in Paths, SaveBegins(p)  PROVE Kept'
    <2>1. Kept
        BY <1>7 DEF SaveBegins, stateVars, KeptAtRest, Running
    <2>2. CASE p = path
        BY <1>0, <1>7, <2>2 DEF SaveBegins, projectVars, Kept
    <2>3. CASE p # path
        <3>1. auto'[path] = auto[path] /\ tmp'[path] = tmp[path]
            BY <1>0, <1>7, <2>3, FilesKept DEF SaveBegins
        <3>2. path \in Paths => saved'[path] = saved[path]
            BY <1>0, <1>7, <2>3 DEF SaveBegins
        <3> QED
            BY <1>0, <1>7, <2>1, <3>1, <3>2, AutosaveAssumption
            DEF SaveBegins, projectVars, stateVars, handleVars, workerVars, Kept, Writing,
                WillBeOffered, Offered, Places
    <2> QED  BY <2>2, <2>3
<1>8. CASE SaveEnds
    <2>1. target \in Paths /\ saved[target] = Torn
        BY <1>0, <1>8 DEF SaveEnds, TypeOK, Noticed
    <2>2. CASE path' = target /\ saved' = [saved EXCEPT ![target] = doc]
        BY <1>0, <1>8, <2>1, <2>2 DEF SaveEnds, Kept
    <2>3. CASE /\ UNCHANGED <<saved, path>>
               /\ auto' = Older(auto, target) /\ tmp' = Older(tmp, target)
        <3>1. Kept
            BY <1>8 DEF SaveEnds, TickAfter, TokenMoved, KeptAtRest, Running
        <3>2. UNCHANGED <<doc, answered, pushed, slot, workerVars>>
            BY <1>8 DEF SaveEnds, handleVars
        <3>3. CASE target = path
            BY <2>1, <2>3, <3>3 DEF Kept
        <3>4. CASE target # path
            <4>1. auto'[path] = auto[path] /\ tmp'[path] = tmp[path]
                BY <1>0, <2>3, <3>4, FilesKept
            <4> QED
                BY <2>3, <3>1, <3>2, <4>1 DEF workerVars, Kept, Writing, WillBeOffered, Offered
        <3> QED  BY <3>3, <3>4
    <2> QED  BY <1>8, <2>2, <2>3 DEF SaveEnds
<1>9. CASE CloseWindow
    BY <1>9 DEF CloseWindow, Running
<1> QED
    BY <1>1, <1>u, <1>2, <1>3, <1>4, <1>5, <1>6, <1>7, <1>8, <1>9 DEF User

LEMMA WorkerKeepsWork ==
    ASSUME Domains, Newest, WholeTmp, KeptAtRest, Worker
    PROVE  KeptAtRest'
<1>0. /\ TypeOK /\ path \in Places /\ saved \in [Paths -> Docs \cup {NoDoc, Torn}]
      /\ auto \in [Places -> Files] /\ tmp \in [Places -> Files] /\ doc \in Docs
    BY DEF Domains, TypeOK
<1>1. /\ UNCHANGED <<ui, projectVars, stateVars, saved>>
    BY DEF Worker, Receive, Take, Truncate, Fill, Rename, WriteFails, fileVars
<1>2. SUFFICES ASSUME Kept  PROVE Kept'
    BY <1>1 DEF KeptAtRest, Running, projectVars, stateVars
<1>3. SUFFICES ASSUME pushed = [at |-> path, doc |-> doc],
                      ~(doc = 0 \/ doc = answered),
                      ~(path \in Paths /\ saved[path] \in {doc, Torn})
               PROVE  Kept'
    BY <1>1, <1>2 DEF Kept, projectVars, stateVars
<1>4. pushed' = [at |-> path', doc |-> doc'] /\ UNCHANGED <<path, doc, pushed, saved>>
    BY <1>1, <1>3 DEF projectVars, stateVars
<1>5. SUFFICES \/ slot' # NoSnap
               \/ Writing' /\ WillBeOffered(path)'
               \/ ~Writing' /\ (failed' \/ (Offered(auto, path)' /\ auto'[path].doc = doc))
    BY <1>4 DEF Kept
<1>6. CASE Receive
    BY <1>2, <1>3, <1>4, <1>6 DEF Receive, fileVars, Kept, Writing, Offered
<1>7. CASE Take
    BY <1>2, <1>3, <1>4, <1>7
    DEF Take, SlotAfterTake, AfterWrite, fileVars, Kept, Writing, WillBeOffered, Offered
<1>8. CASE Truncate \/ Fill
    <2>1. CASE slot # NoSnap
        BY <1>8, <2>1 DEF Truncate, Fill, handleVars
    <2>2. CASE slot = NoSnap
        <3>1. wheld = pushed /\ wheld.at = path
            BY <1>3, <1>8, <2>2 DEF Truncate, Fill, Newest, Writing
        <3>2. Fill => tmp'[path].newer
            BY <1>0, <3>1 DEF Fill
        <3> QED  BY <1>4, <1>8, <3>2 DEF Truncate, Fill, Writing, WillBeOffered
    <2> QED  BY <2>1, <2>2
<1>9. CASE Rename
    <2>1. CASE slot # NoSnap
        BY <1>9, <2>1 DEF Rename, handleVars
    <2>2. CASE slot = NoSnap
        <3>1. wheld = pushed /\ wheld.at = path /\ wheld.doc = doc
            BY <1>3, <1>9, <2>2 DEF Rename, Newest, Writing
        <3>2. WillBeOffered(path)
            BY <1>2, <1>3, <1>9, <2>2 DEF Kept, Writing, Rename
        <3>3. auto'[path] = tmp[path] /\ tmp[path].doc = doc
            BY <1>0, <1>9, <3>1 DEF Rename, WholeTmp
        <3>4. doc # NoDoc
            BY <1>0, AutosaveAssumption DEF Docs, NoDoc
        <3>5. Offered(auto, path)'
            BY <1>0, <1>4, <1>9, <3>2, <3>3, <3>4 DEF Rename, WillBeOffered, Offered, Places
        <3>6. ~Writing'
            BY <1>9 DEF Rename, AfterWrite, Writing
        <3> QED  BY <3>3, <3>5, <3>6
    <2> QED  BY <2>1, <2>2
<1>10. CASE WriteFails
    BY <1>10 DEF WriteFails, AfterWrite, Writing
<1> QED  BY <1>6, <1>7, <1>8, <1>9, <1>10 DEF Worker

LEMMA NextKeepsWork ==
    ASSUME Domains, Newest, WholeTmp, LastDrain, Noticed, KeptAtRest, [Next]_vars
    PROVE  KeptAtRest'
<1>1. CASE Joined \/ Crash
    BY <1>1 DEF Joined, Crash, KeptAtRest, Running
<1>2. CASE UNCHANGED vars
    BY <1>2
    DEF vars, projectVars, stateVars, handleVars, workerVars, fileVars, KeptAtRest, Running, Kept,
        Writing, WillBeOffered, Offered
<1> QED  BY <1>1, <1>2, UserKeepsWork, WorkerKeepsWork DEF Next

-----------------------------------------------------------------------------
(* The theorems *)

LEMMA InitHolds == Init => IInv
<1> SUFFICES ASSUME Init  PROVE IInv
    OBVIOUS
<1>1. Domains
    BY InitDomains
<1>2. Newest /\ WholeTmp /\ Noticed /\ KeptAtRest
    BY DEF Init, Newest, WholeTmp, Noticed, KeptAtRest, Kept, Writing
<1>3. LastDrain
    BY DEF Init, LastDrain
<1>4. AutosaveNeverTorn
    BY DEF Init, AutosaveNeverTorn, Absent, NoDoc, Torn
<1> QED  BY <1>1, <1>2, <1>3, <1>4 DEF IInv

THEOREM Invariance == Spec => []IInv
<1>1. Init => IInv
    BY InitHolds
<1>2. IInv /\ [Next]_vars => IInv'
    BY NextKeepsDomains, NextKeepsPipeline, NextKeepsFilesWhole, NextKeepsNoticed, NextKeepsWork
    DEF IInv
<1> QED  BY <1>1, <1>2, PTL DEF Spec

\* TypeOK in every state.
THEOREM TypeCorrect == Spec => []TypeOK
<1>1. IInv => TypeOK
    BY DEF IInv, Domains
<1> QED  BY <1>1, Invariance, PTL

\* AutosaveNeverTorn (autosave.rs, write_atomic): at whatever step the process
\* dies, an autosave file is a whole snapshot.
THEOREM NeverTorn == Spec => []AutosaveNeverTorn
<1>1. IInv => AutosaveNeverTorn
    BY DEF IInv
<1> QED  BY <1>1, Invariance, PTL

\* NewestIsWritten (autosave.rs, push_snapshot and the worker's loop): a worker
\* that waits with the slot empty, or has exited, has written the last push.
THEOREM NewestReachesDisk == Spec => []NewestIsWritten
<1>1. IInv => NewestIsWritten
    BY DEF IInv, Newest, LastDrain, NewestIsWritten, Quiet
<1> QED  BY <1>1, Invariance, PTL

\* WorkAtRestIsRecoverable (ui/autosave.rs, tick and flush; ui/app.rs, the
\* project commands), for every number of edits, files, switches and restarts.
THEOREM WorkIsRecoverable == Spec => []WorkAtRestIsRecoverable
<1>1. IInv => WorkAtRestIsRecoverable
    BY DEF IInv, KeptAtRest, Kept, Running, Writing, WorkAtRestIsRecoverable, Quiet, Recoverable,
        Excused
<1> QED  BY <1>1, Invariance, PTL
=============================================================================
