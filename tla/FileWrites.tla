----------------------------- MODULE FileWrites ------------------------------
(***************************************************************************)
(* The writes of a project's LIFT file, all of it at a time, and what      *)
(* becomes of those that stop half-way.                                    *)
(*                                                                         *)
(* On Android an app writes its copy of the file to a scratch file under   *)
(* .azt_atomic_pending/, without the lock, and asks the daemon to rename   *)
(* it (lift_io.py, server.py).  Whatever is left there the scheduler's     *)
(* watcher merges into the file, deletes or puts aside, a minute later     *)
(* (atomic_recovery.py).  On a desktop the editor hands a staged copy and  *)
(* the HEAD it was made from to submit_file, which merges when HEAD has    *)
(* moved (repo.py).  Syncs, pushes from other devices, edits of one entry  *)
(* (lift_surgery.py) and commits change the file and HEAD meanwhile.       *)
(*                                                                         *)
(* The file is the set of edits it shows.                                  *)
(***************************************************************************)
EXTENDS Naturals

CONSTANTS
    Seed,         \* what the file has at the start
    Writes,       \* edits an Android app saves, each by a write of its own
    Desk,         \* edits made in the desktop editor
    Surgical,     \* edits of one entry, made by the daemon for a client
    Peer,         \* edits of other devices
    Torn          \* what a file has that ends in the middle

Edits == Seed \cup Writes \cup Desk \cup Surgical \cup Peer

ASSUME ContentAssumption == Torn \notin Edits /\ Seed \cap Writes = {}

VARIABLES
    platform,     \* "android" or "desktop"
    lift,         \* the LIFT file in the working tree; {}: there is none
    index,        \* the file as git has it staged
    head,         \* the file in the commit HEAD names
    sync,         \* a sync has the project lock
    client,       \* where the app is with each write; "done": it was confirmed
                  \* or refused, or the app has died
    copy,         \* what it writes: the file as it read it, and its edit
    scratch,      \* the scratch file of the write: "none", "part" or "whole"
    old,          \* the scratch files that are older than _MIN_AGE_S
    handler,      \* writes an atomic_finalize has found the scratch file of
    stash,        \* writes put aside in .azt_atomic_orphans/unmergeable
    landed,       \* the writes whose edit was ever in the file
    at,           \* where recover_project_orphans is
    names,        \* the files it has listed and has yet to dispose of
    orphan,       \* the one it has written the edits of and not yet deleted
    current,      \* current_bytes, the LIFT file as the recovery knows it
    editor,       \* where the desktop editor is
    buffer,       \* the file as the editor has it in memory
    base,         \* the file in the commit it takes for its base_sha
    saw,          \* the HEAD a submit_file has merged with
    parent        \* the HEAD its commit is made on

repo == <<lift, index, head>>
android == <<client, copy, scratch, old, handler, stash>>
recovery == <<at, names, orphan, current>>
desktop == <<editor, buffer, base, saw, parent>>
vars == <<platform, repo, sync, android, landed, recovery, desktop>>

Files == SUBSET (Edits \cup {Torn})

TypeOK ==
    /\ platform \in {"android", "desktop"}
    /\ lift \in Files /\ index \in Files /\ head \in Files
    /\ sync \in BOOLEAN
    /\ client \in [Writes -> {"idle", "writing", "asked", "fallback", "done"}]
    /\ copy \in [Writes -> Files]
    /\ scratch \in [Writes -> {"none", "part", "whole"}]
    /\ old \in SUBSET Writes /\ handler \in SUBSET Writes /\ stash \in SUBSET Writes
    /\ landed \in SUBSET Writes
    /\ at \in {"idle", "wait", "each", "written", "committed"}
    /\ names \in SUBSET Writes /\ orphan \in SUBSET Writes /\ current \in Files
    /\ editor \in {"closed", "based", "open", "sent", "staged", "fallback"}
    /\ buffer \in Files /\ base \in Files
    /\ saw \in Files /\ parent \in Files

(* A project that was registered may have no LIFT file yet.                *)
Init ==
    /\ platform \in {"android", "desktop"}
    /\ lift \in {Seed, {}} /\ index = lift /\ head = lift /\ landed = {}
    /\ sync = FALSE
    /\ client = [w \in Writes |-> "idle"] /\ copy = [w \in Writes |-> {}]
    /\ scratch = [w \in Writes |-> "none"]
    /\ old = {} /\ handler = {} /\ stash = {}
    /\ at = "idle" /\ names = {} /\ orphan = {} /\ current = {}
    /\ editor = "closed" /\ buffer = {} /\ base = {} /\ saw = {} /\ parent = {}

(* Who has the project lock: a sync, the recovery, a submit_file; the other *)
(* holders take and return it in one step.                                  *)
LockFree == ~sync /\ at \in {"idle", "wait"} /\ editor \notin {"sent", "staged"}

(* lift_merge.three_way_merge.                                             *)
Merged(from, ours, theirs) ==
    (ours \cap theirs) \cup (ours \ from) \cup (theirs \ from)

Write(content) ==
    /\ lift' = content
    /\ landed' = landed \cup (content \cap Writes)

-----------------------------------------------------------------------------
(* What else changes the file and HEAD                                     *)

(* A commit: the file is staged and HEAD gets it.                          *)
Commit ==
    /\ LockFree /\ head # lift
    /\ index' = lift /\ head' = lift
    /\ UNCHANGED <<platform, lift, sync, android, landed, recovery, desktop>>

(* A sync commits, and merges what other devices have sent.                *)
SyncTakesLock ==
    /\ LockFree /\ sync' = TRUE
    /\ UNCHANGED <<platform, repo, android, landed, recovery, desktop>>

SyncEnds ==
    /\ sync
    /\ \/ /\ Torn \notin lift
          /\ \E S \in SUBSET Peer : Write(lift \cup head \cup S)
          /\ index' = lift' /\ head' = lift'
       \/ UNCHANGED <<repo, landed>>
    /\ sync' = FALSE
    /\ UNCHANGED <<platform, android, recovery, desktop>>

(* A push from another device moves the branch without the lock ...        *)
Receive ==
    /\ \E p \in Peer \ head : head' = head \cup {p}
    /\ UNCHANGED <<platform, lift, index, sync, android, landed, recovery, desktop>>

(* ... and the working tree follows under the lock, unless a scratch file  *)
(* is young: reset to HEAD, or merged with it when it has unstaged changes. *)
Follow ==
    /\ LockFree /\ lift # head
    /\ \A w \in Writes : scratch[w] # "none" => w \in old
    /\ \/ lift = index /\ Write(head) /\ index' = head
       \/ lift # index /\ Write(lift \cup head) /\ UNCHANGED index
    /\ UNCHANGED <<platform, head, sync, android, recovery, desktop>>

(* set_audio, set_illustration: one entry of the file is read, changed and *)
(* written back, under the lock.                                           *)
SurgicalEdit ==
    /\ LockFree /\ lift # {} /\ Torn \notin lift
    /\ \E e \in Surgical \ lift : Write(lift \cup {e})
    /\ UNCHANGED <<platform, index, head, sync, android, recovery, desktop>>

-----------------------------------------------------------------------------
(* The write of an Android app                                             *)

(* atomic_open_write, phase 1: from what the app has read of the file, to a *)
(* scratch file, through a descriptor of the content provider.             *)
OpenWrite(w) ==
    /\ platform = "android" /\ client[w] = "idle" /\ Torn \notin lift
    /\ client' = [client EXCEPT ![w] = "writing"]
    /\ copy' = [copy EXCEPT ![w] = lift \cup {w}]
    /\ scratch' = [scratch EXCEPT ![w] = "part"]
    /\ UNCHANGED <<platform, repo, sync, old, handler, stash, landed, recovery, desktop>>

WriteEnds(w) ==
    /\ client[w] = "writing" /\ scratch[w] = "part"
    /\ scratch' = [scratch EXCEPT ![w] = "whole"]
    /\ UNCHANGED <<platform, repo, sync, client, copy, old, handler, stash, landed,
                   recovery, desktop>>

(* The app is killed, or never asks: its scratch file is an orphan.        *)
AppDies(w) ==
    /\ client[w] \in {"writing", "asked", "fallback"}
    /\ client' = [client EXCEPT ![w] = "done"]
    /\ copy' = [copy EXCEPT ![w] = IF scratch[w] = "none" THEN {} ELSE @]
    /\ UNCHANGED <<platform, repo, sync, scratch, old, handler, stash, landed,
                   recovery, desktop>>

(* _MIN_AGE_S have passed since the last byte was written.                 *)
Ages(w) ==
    /\ scratch[w] # "none" /\ w \notin old
    /\ ~(client[w] = "writing" /\ scratch[w] = "part")
    /\ old' = old \cup {w}
    /\ UNCHANGED <<platform, repo, sync, client, copy, scratch, handler, stash, landed,
                   recovery, desktop>>

(* atomic_finalize, phase 2: the handler looks for the scratch file and    *)
(* hashes it without the lock; 404 when it is gone.                        *)
Finalize(w) ==
    /\ client[w] = "writing" /\ scratch[w] # "part"
    /\ IF scratch[w] = "whole"
       THEN /\ handler' = handler \cup {w}
            /\ client' = [client EXCEPT ![w] = "asked"]
       ELSE /\ client' = [client EXCEPT ![w] = "fallback"]
            /\ UNCHANGED handler
    /\ UNCHANGED <<platform, repo, sync, copy, scratch, old, stash, landed, recovery,
                   desktop>>

(* The scratch file is gone; the bytes are, unless the app has them.       *)
Remove(w) ==
    /\ scratch' = [scratch EXCEPT ![w] = "none"]
    /\ old' = old \ {w}
    /\ copy' = [copy EXCEPT ![w] = IF client'[w] = "done" THEN {} ELSE @]

Answer(w, answer) ==
    client' = IF client[w] = "asked" THEN [client EXCEPT ![w] = answer] ELSE client

(* The scratch file is renamed onto the LIFT file, under the lock ...      *)
FinalizeLands(w) ==
    /\ w \in handler /\ LockFree /\ scratch[w] = "whole"
    /\ Write(copy[w])
    /\ Answer(w, "done")
    /\ Remove(w)
    /\ handler' = handler \ {w}
    /\ UNCHANGED <<platform, index, head, sync, stash, recovery, desktop>>

(* ... or, after ten seconds without the lock, or when it is gone by now,  *)
(* the scratch file is deleted and the client gets a 500.                  *)
FinalizeFails(w) ==
    /\ w \in handler /\ (~LockFree \/ scratch[w] = "none")
    /\ Answer(w, "fallback")
    /\ Remove(w)
    /\ handler' = handler \ {w}
    /\ UNCHANGED <<platform, repo, sync, stash, landed, recovery, desktop>>

(* The client then sends the bytes themselves: atomic_commit.              *)
AtomicCommit(w) ==
    /\ client[w] = "fallback"
    /\ IF LockFree THEN Write(copy[w]) ELSE UNCHANGED <<lift, landed>>
    /\ client' = [client EXCEPT ![w] = "done"]
    /\ copy' = [copy EXCEPT ![w] = {}]
    /\ UNCHANGED <<platform, index, head, sync, scratch, old, handler, stash,
                   recovery, desktop>>

-----------------------------------------------------------------------------
(* recover_project_orphans, on the watcher's tick                          *)

(* A variant with a fault: what is still being written is taken too.       *)
AnyAge == {w \in Writes : scratch[w] # "none"}

(* A variant with a fault: what does not parse is not looked at.           *)
OldAndWhole == {w \in old : scratch[w] = "whole"}

OfAge == old

(* The files are listed, their ages taken and the LIFT file read before    *)
(* the lock is asked for.                                                  *)
Scan ==
    /\ at = "idle" /\ OfAge # {}
    /\ at' = "wait"
    /\ names' = OfAge /\ current' = lift
    /\ UNCHANGED <<platform, repo, sync, android, landed, orphan, desktop>>

(* The lock, or the next tick.                                             *)
ScanTakesLock ==
    /\ at = "wait"
    /\ IF LockFree THEN at' = "each" /\ UNCHANGED <<names, current>>
       ELSE at' = "idle" /\ names' = {} /\ current' = {}
    /\ UNCHANGED <<platform, repo, sync, android, landed, orphan, desktop>>

Bytes(w) == IF scratch[w] = "whole" THEN copy[w] ELSE {Torn}

(* A variant with a fault: an orphan of which a part is known is deleted.  *)
SharesEntries(w) == scratch[w] = "whole" /\ copy[w] \cap current # {}

(* _is_garbage: the LIFT file has all that the orphan has.                 *)
IsGarbage(w) == scratch[w] = "whole" /\ copy[w] \subseteq current

(* It is gone by now, or it is garbage and is deleted.                     *)
Discard(w) ==
    /\ at = "each" /\ w \in names
    /\ scratch[w] = "none" \/ IsGarbage(w)
    /\ UNCHANGED client /\ Remove(w)
    /\ names' = names \ {w}
    /\ UNCHANGED <<platform, repo, sync, handler, stash, landed, at,
                   orphan, current, desktop>>

(* No LIFT file: the orphan becomes it. Otherwise the two are merged, with *)
(* nothing for a base.                                                     *)
WriteMerged(w) ==
    /\ at = "each" /\ w \in names
    /\ scratch[w] # "none" /\ ~IsGarbage(w)
    /\ current = {} \/ Torn \notin current \cup Bytes(w)
    /\ Write(Merged({}, current, Bytes(w)))
    /\ current' = Merged({}, current, Bytes(w))
    /\ orphan' = {w} /\ at' = "written"
    /\ UNCHANGED <<platform, index, head, sync, android, names, desktop>>

(* One of them does not parse: the orphan is moved out of the way.         *)
StashUnmergeable(w) ==
    /\ at = "each" /\ w \in names
    /\ scratch[w] # "none" /\ ~IsGarbage(w)
    /\ current # {} /\ Torn \in current \cup Bytes(w)
    /\ UNCHANGED client /\ Remove(w)
    /\ stash' = stash \cup {w}
    /\ names' = names \ {w}
    /\ UNCHANGED <<platform, repo, sync, handler, landed, at, orphan,
                   current, desktop>>

(* Too little memory for a merge: the rest is left for another time.       *)
LowMemory ==
    /\ at = "each"
    /\ \E w \in names : scratch[w] # "none" /\ ~IsGarbage(w) /\ current # {}
    /\ at' = "idle" /\ names' = {} /\ current' = {}
    /\ UNCHANGED <<platform, repo, sync, android, landed, orphan, desktop>>

(* _commit_recovery; what it raises is logged, and the orphan goes anyway. *)
CommitRecovery ==
    /\ at = "written"
    /\ \/ index' = lift /\ head' = lift
       \/ UNCHANGED <<index, head>>
    /\ at' = "committed"
    /\ UNCHANGED <<platform, lift, sync, android, landed, names, orphan, current, desktop>>

Unlink(w) ==
    /\ at = "committed" /\ w \in orphan
    /\ UNCHANGED client /\ Remove(w)
    /\ names' = names \ {w}
    /\ orphan' = {} /\ at' = "each"
    /\ UNCHANGED <<platform, repo, sync, handler, stash, landed, current,
                   desktop>>

ScanEnds ==
    /\ at = "each" /\ names = {}
    /\ at' = "idle" /\ current' = {}
    /\ UNCHANGED <<platform, repo, sync, android, landed, names, orphan, desktop>>

-----------------------------------------------------------------------------
(* The desktop editor and submit_file                                      *)

(* The editor asks for HEAD, then reads the file.                          *)
AskHead ==
    /\ platform = "desktop" /\ editor = "closed"
    /\ base' = head /\ editor' = "based"
    /\ UNCHANGED <<platform, repo, sync, android, landed, recovery, buffer, saw, parent>>

Load ==
    /\ editor = "based"
    /\ buffer' = lift /\ editor' = "open"
    /\ UNCHANGED <<platform, repo, sync, android, landed, recovery, base, saw, parent>>

Edit ==
    /\ editor = "open"
    /\ \E e \in Desk \ buffer : buffer' = buffer \cup {e}
    /\ UNCHANGED <<platform, repo, sync, android, landed, recovery, editor, base, saw, parent>>

(* A variant with a fault: the staged file replaces the file, always.      *)
StagedWins(ours, staged) == staged

(* With HEAD where it was when the editor took its base, this is what is   *)
(* staged.                                                                 *)
Submitted(ours, staged) == Merged(base, ours, staged)

(* Merged with the file in HEAD; only if HEAD has none with the file in    *)
(* the working tree, unless there is no commit either.                     *)
SubmitFile ==
    /\ editor = "open" /\ LockFree
    /\ \E ours \in IF head # {} THEN {head} ELSE {base, lift} :
          Write(Submitted(ours, buffer))
    /\ saw' = head /\ editor' = "sent"
    /\ UNCHANGED <<platform, index, head, sync, android, recovery, buffer, base, parent>>

SubmitBusy ==
    /\ editor = "open" /\ ~LockFree
    /\ editor' = "fallback"
    /\ UNCHANGED <<platform, repo, sync, android, landed, recovery, buffer, base, saw, parent>>

(* The commit step stages the file, and reads HEAD again for the parent.   *)
SubmitStages ==
    /\ editor = "sent"
    /\ index' = lift /\ parent' = head
    /\ editor' = "staged"
    /\ UNCHANGED <<platform, lift, head, sync, android, landed, recovery, buffer, base, saw>>

(* A variant with a fault: the ref is written without a compare.           *)
WhereverHeadIs == TRUE

HeadUnmoved == head = parent

Answered(tip) ==
    /\ base' = tip
    /\ editor' = IF lift = buffer THEN "open" ELSE "closed"

(* HEAD moves by compare-and-set. The editor takes the new HEAD for its    *)
(* base, and reads the file again when the merge has brought what it has   *)
(* not. When the commit fails, or the answer is lost, it writes the file   *)
(* itself.                                                                 *)
SubmitCommits ==
    /\ editor = "staged"
    /\ head' = IF HeadUnmoved THEN lift ELSE head
    /\ \/ HeadUnmoved /\ Answered(head')
       \/ editor' = "fallback" /\ UNCHANGED base
    /\ UNCHANGED <<platform, lift, index, sync, android, landed, recovery, buffer, saw,
                   parent>>

(* CONTRIBUTOR_UNSET: the bytes have landed, no commit is made.            *)
SubmitUnsigned ==
    /\ editor = "sent"
    /\ Answered(saw)
    /\ UNCHANGED <<platform, repo, sync, android, landed, recovery, buffer, saw, parent>>

(* The editor's own write, without the lock.                               *)
DirectWrite ==
    /\ editor = "fallback"
    /\ Write(buffer)
    /\ editor' = "open"
    /\ UNCHANGED <<platform, index, head, sync, android, recovery, buffer, base, saw, parent>>

-----------------------------------------------------------------------------
(* The daemon is killed and started again: calls under way fail, files     *)
(* stay.                                                                   *)
Crash ==
    /\ sync' = FALSE
    /\ at' = "idle" /\ names' = {} /\ orphan' = {} /\ current' = {}
    /\ handler' = {}
    /\ client' = [w \in Writes |->
                     IF client[w] = "asked" THEN "done" ELSE client[w]]
    /\ editor' = IF editor \in {"sent", "staged"} THEN "fallback" ELSE editor
    /\ UNCHANGED <<platform, repo, copy, scratch, old, stash, landed, buffer, base, saw, parent>>

App(w) ==
    \/ OpenWrite(w) \/ WriteEnds(w) \/ AppDies(w) \/ Ages(w)
    \/ Finalize(w) \/ FinalizeLands(w) \/ FinalizeFails(w) \/ AtomicCommit(w)

Dispose(w) == Discard(w) \/ WriteMerged(w) \/ StashUnmergeable(w) \/ Unlink(w)

Next ==
    \/ Commit \/ SyncTakesLock \/ SyncEnds \/ Receive \/ Follow \/ SurgicalEdit
    \/ \E w \in Writes : App(w) \/ Dispose(w)
    \/ Scan \/ ScanTakesLock \/ LowMemory \/ CommitRecovery \/ ScanEnds
    \/ AskHead \/ Load \/ Edit
    \/ SubmitFile \/ SubmitBusy \/ SubmitStages \/ SubmitCommits \/ SubmitUnsigned \/ DirectWrite
    \/ Crash

Spec == Init /\ [][Next]_vars

(* A thread that may go on goes on, and the recovery gets a lock that is   *)
(* free time and again. From some time on the process is not killed, memory *)
(* is not short and no holder of the lock makes the recovery give up.      *)
Well == ~Crash /\ ~LowMemory /\ ~(ScanTakesLock /\ at' = "idle")

Fairness ==
    /\ <>[][Well]_vars
    /\ WF_vars(SyncEnds \/ SubmitStages \/ SubmitCommits)
    /\ WF_vars(\E w \in Writes : Ages(w))
    /\ SF_vars(ScanTakesLock)
    /\ WF_vars(\/ Scan \/ CommitRecovery \/ ScanEnds
               \/ \E w \in Writes : Dispose(w))

FairSpec == Spec /\ Fairness

-----------------------------------------------------------------------------
(* A write that has reached the scratch file whole does not vanish: the    *)
(* file goes when the edit is, or once was, in the LIFT file, or when it   *)
(* is put aside - in whatever order the finalize, the recovery, the app's  *)
(* death, the daemon's and the other writers of the file come. The one     *)
(* exception is a finalize that fails, see FinalizeFails.                  *)
WholeWritesLand ==
    [][\A w \in Writes :
          scratch[w] = "whole" /\ scratch'[w] = "none" /\ ~FinalizeFails(w)
              => w \in landed' \cup stash']_vars

(* The recovery does not take a file an app is still writing.              *)
WritingIsLeftAlone ==
    [][\A w \in Writes : client[w] = "writing" /\ scratch[w] = "part"
                             => scratch'[w] # "none"]_vars

(* What was committed since the editor took its base, and before its       *)
(* submit_file looked at HEAD, is in what the submit commits; so is what   *)
(* the editor submits. The commit takes nothing out that a push has moved  *)
(* HEAD to after the parent was read. Changes in the file that are not     *)
(* committed are no part of it: the submit overwrites them.                *)
SubmitMerges ==
    [][SubmitCommits =>
          \/ head' = head
          \/ head = parent /\ (saw \ base) \cup (buffer \ base) \subseteq head']_vars

(* What a write that was given up has left is merged, deleted or put aside. *)
OrphansGo ==
    \A w \in Writes : client[w] = "done" /\ scratch[w] # "none" ~> scratch[w] = "none"

-----------------------------------------------------------------------------
(* atomic_recovery.py:211: "Acquires project_lock for the duration of any  *)
(* merge+commit so it can't overlap a sync's merge-output write or another *)
(* peer's atomic_finalize". It merges with the LIFT file as it was before  *)
(* it asked for the lock, and writes that over what they have written.     *)
RecoveryKeepsFile ==
    [][at = "each" /\ at' = "written" => lift \subseteq lift']_vars

(* server.py:4747: "a merge that landed since the caller's base is never   *)
(* clobbered". One that a push brings between the look at HEAD and the     *)
(* commit becomes the parent, and the commit's tree is without it.         *)
SubmitKeepsHead ==
    [][SubmitCommits => head \ base \subseteq head']_vars
=============================================================================
