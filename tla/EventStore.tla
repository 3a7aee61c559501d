------------------------------ MODULE EventStore ------------------------------
(* HubCampaignStore: events, reservations and markers of a campaign in a     *)
(* Hub dataset. A write reads the head of main, looks at the files of that    *)
(* revision, and commits with the head as parent; a commit whose parent is    *)
(* no longer the head is refused and the write starts again.                  *)
EXTENDS Naturals, FiniteSets

CONSTANTS
    Writers, Paths, Contents, Absent, Ops, Same(_, _, _),
    MaxAttempts,   \* _MAX_COMMIT_ATTEMPTS
    BatchSize,     \* _MAX_EVENT_BATCH_OPERATIONS
    MaxRequests    \* bound on the requests of a writer

ASSUME StoreAssumption ==
    /\ Absent \notin Contents /\ Absent \notin Ops
    /\ MaxAttempts \in Nat \ {0} /\ BatchSize \in Nat \ {0} /\ MaxRequests \in Nat
    /\ \A op \in Ops : /\ op.kind \in {"append", "ensure", "observe"}
                       /\ op.new \in [DOMAIN op.new -> Contents]
                       /\ DOMAIN op.new \subseteq Paths /\ op.unless \subseteq Paths
                       /\ op.kind = "observe" => op.unless = {}
    \* Files that are written under a condition are only written under it.
    /\ \A op, other \in Ops :
          op.unless # {} /\ DOMAIN op.new \cap DOMAIN other.new # {} =>
              other.unless = op.unless

VARIABLES
    files, req, res,
    head,    \* the number of commits of main
    view,    \* per writer: the revision it read, and the files of that revision
    tries,   \* per writer: attempts begun
    asked    \* per writer: requests made

vars == <<files, req, res, head, view, tries, asked>>

Store == INSTANCE AtomicStore WITH
    Writers <- Writers, Paths <- Paths, Contents <- Contents, Absent <- Absent,
    Ops <- Ops, Same <- Same, files <- files, req <- req, res <- res

NoView == [head |-> 0, files |-> [p \in Paths |-> Absent], read |-> FALSE]

Answer(w, r) == res' = [res EXCEPT ![w] = r]

Init ==
    /\ files = [p \in Paths |-> Absent]
    /\ req = [w \in Writers |-> Absent] /\ res = [w \in Writers |-> "none"]
    /\ head = 0
    /\ view = [w \in Writers |-> NoView]
    /\ tries = [w \in Writers |-> 0] /\ asked = [w \in Writers |-> 0]

\* append_event and create_campaign, ensure_event, reserve_action, the
\* cancellation, the resolution, ensure_events_unless_cancelled, ensure_events.
Request(w, op) ==
    /\ res[w] # "pending" /\ asked[w] < MaxRequests
    /\ req' = [req EXCEPT ![w] = op]
    /\ Answer(w, "pending")
    /\ asked' = [asked EXCEPT ![w] = @ + 1]
    /\ tries' = [tries EXCEPT ![w] = 0]
    /\ view' = [view EXCEPT ![w] = NoView]
    /\ UNCHANGED <<files, head>>

\* The files of the revision main points to: everything a request looks at is
\* read from this one revision.
Revision == [head |-> head, files |-> files, read |-> TRUE]

\* One attempt begins: the head, and what its revision holds.
ReadHead(w) ==
    /\ res[w] = "pending" /\ ~view[w].read /\ tries[w] < MaxAttempts
    /\ tries' = [tries EXCEPT ![w] = @ + 1]
    /\ view' = [view EXCEPT ![w] = Revision]
    /\ UNCHANGED <<files, req, res, head, asked>>

\* The revision holds the request already, or something that stands against it.
Settle(w) ==
    /\ res[w] = "pending" /\ view[w].read
    /\ Store!Settled(view[w].files, req[w]) # "none"
    /\ Answer(w, Store!Settled(view[w].files, req[w]))
    /\ UNCHANGED <<files, req, head, view, tries, asked>>

\* The files of one commit: all that is missing, a batch of it for observations.
Batch(w, P) ==
    LET missing == Store!Missing(view[w].files, req[w])
    IN IF req[w].kind = "observe" /\ Cardinality(missing) > BatchSize
       THEN P \subseteq missing /\ Cardinality(P) = BatchSize
       ELSE P = missing

CommitUnparented(w) ==
    /\ res[w] = "pending" /\ view[w].read
    /\ Store!Settled(view[w].files, req[w]) = "none"
    /\ files' = Store!Write(files, req[w], Store!Missing(view[w].files, req[w]))
    /\ head' = head + 1 /\ Answer(w, "created")
    /\ UNCHANGED <<req, view, tries, asked>>

\* The commit lands on the revision that was read. Its answer may be lost.
Commit(w) ==
    /\ res[w] = "pending" /\ view[w].read /\ view[w].head = head
    /\ Store!Settled(view[w].files, req[w]) = "none"
    /\ \E P \in SUBSET Paths :
          /\ Batch(w, P)
          /\ files' = Store!Write(files, req[w], P)
          /\ head' = head + 1
          /\ view' = [view EXCEPT ![w] = [head |-> head + 1, files |-> files', read |-> TRUE]]
          /\ \/ Answer(w, IF P = Store!Missing(view[w].files, req[w])
                          THEN "created" ELSE "pending")
             \/ Answer(w, "raised")
    /\ UNCHANGED <<req, tries, asked>>

\* Another commit came first: begin again, with the whole request.
ParentConflict(w) ==
    /\ res[w] = "pending" /\ view[w].read /\ view[w].head # head
    /\ Store!Settled(view[w].files, req[w]) = "none"
    /\ view' = [view EXCEPT ![w] = NoView]
    /\ UNCHANGED <<files, req, res, head, tries, asked>>

\* No attempt is left ("control repository remained contended"), or a call
\* failed before the commit.
Fail(w) ==
    /\ res[w] = "pending"
    /\ Answer(w, "raised")
    /\ UNCHANGED <<files, req, head, view, tries, asked>>

Next == \E w \in Writers :
            \/ \E op \in Ops : Request(w, op)
            \/ ReadHead(w) \/ Settle(w) \/ Commit(w) \/ ParentConflict(w) \/ Fail(w)

Spec == Init /\ [][Next]_vars

-----------------------------------------------------------------------------
(* Properties.                                                              *)

\* Reads of an older revision, refused commits, repeated attempts and lost
\* answers are invisible: each request takes effect at once, on the files as
\* they are (parent_commit in every create_commit).
StoreIsAtomic == Store!ASpec
=============================================================================
