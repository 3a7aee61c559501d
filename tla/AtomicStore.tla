----------------------------- MODULE AtomicStore -----------------------------
(* What HubCampaignStore promises its callers: every request takes effect in *)
(* one step on the files as they are then. Only a batch of observations may   *)
(* arrive in parts.                                                           *)
CONSTANTS
    Writers,
    Paths,      \* files of one campaign in the control repository
    Contents,
    Absent,     \* the content of a file that does not exist
    Ops,        \* requests: records with a kind, what they write, what they name
    Same(_, _, _)  \* Same(p, old, new): old is an earlier form of the same request

VARIABLES
    files,   \* [Paths -> Contents \cup {Absent}]
    req,     \* what each writer asked for
    res      \* what it was told

aVars == <<files, req, res>>

Results == {"none", "pending", "created", "exists", "conflict", "refused", "raised"}

Missing(f, op) == {p \in DOMAIN op.new : f[p] = Absent}
Conflicts(f, op) ==
    \E p \in DOMAIN op.new : f[p] # Absent /\ ~Same(p, f[p], op.new[p])

\* A file that stands against the request: the marker of a cancellation for the
\* guarded end of a trial, a failed cleanup that a resolution does not name.
Stands(f, op) == \E p \in op.unless : f[p] # Absent

\* What the store answers when it does not have to write.
Settled(f, op) ==
    IF Conflicts(f, op) THEN "conflict"
    ELSE IF op.kind = "append" /\ Missing(f, op) # DOMAIN op.new THEN "conflict"
    ELSE IF Missing(f, op) = {} THEN "exists"
    ELSE IF Stands(f, op) THEN "refused"
    ELSE "none"

Write(f, op, P) == [p \in Paths |-> IF p \in P THEN op.new[p] ELSE f[p]]

AInit ==
    /\ files = [p \in Paths |-> Absent]
    /\ req = [w \in Writers |-> Absent]
    /\ res = [w \in Writers |-> "none"]

ARequest(w, op) ==
    /\ res[w] # "pending"
    /\ req' = [req EXCEPT ![w] = op]
    /\ res' = [res EXCEPT ![w] = "pending"]
    /\ UNCHANGED files

AAnswer(w) ==
    /\ res[w] = "pending"
    /\ Settled(files, req[w]) # "none"
    /\ res' = [res EXCEPT ![w] = Settled(files, req[w])]
    /\ UNCHANGED <<files, req>>

\* The files are written; the caller hears of it, or of an error.
AWrite(w) ==
    /\ res[w] = "pending"
    /\ Settled(files, req[w]) = "none"
    /\ files' = Write(files, req[w], Missing(files, req[w]))
    /\ \E r \in {"created", "raised"} : res' = [res EXCEPT ![w] = r]
    /\ UNCHANGED req

APart(w) ==
    /\ res[w] = "pending" /\ req[w].kind = "observe"
    /\ Settled(files, req[w]) = "none"
    /\ \E P \in SUBSET Missing(files, req[w]) :
          /\ files' = Write(files, req[w], P)
          /\ \E r \in {"pending", "raised"} : res' = [res EXCEPT ![w] = r]
    /\ UNCHANGED req

\* Nothing is written: the repository stayed contended, or a call failed.
AFail(w) ==
    /\ res[w] = "pending"
    /\ res' = [res EXCEPT ![w] = "raised"]
    /\ UNCHANGED <<files, req>>

ANext == \E w \in Writers : (\E op \in Ops : ARequest(w, op))
                            \/ AAnswer(w) \/ AWrite(w) \/ APart(w) \/ AFail(w)

ASpec == AInit /\ [][ANext]_aVars
=============================================================================
