---------------------------- MODULE PhaseContract ----------------------------
(***************************************************************************)
(* What a request phase promises the lifecycle that runs it, whichever     *)
(* load mode it uses: the part of runClosedLoopPhase and runOpenLoopPhase  *)
(* (src/internal/benchmark/lifecycle.go) that                              *)
(* LifecycleCoordinator.Run can observe through the PhaseResult, the error *)
(* and the two callbacks.  ClosedLoopPhase and OpenLoopPhase implement it, *)
(* Lifecycle is built on it.                                               *)
(***************************************************************************)
EXTENDS Naturals

CONSTANT
  Requests    (* the number of requests, or scheduled arrivals             *)

Outcome == {"succeeded", "request_error", "request_timeout",
            "parent_cancelled", "drain_timeout"}
Status  == {"pending", "admitted", "dropped"} \cup Outcome

VARIABLES
  kind,       (* of phase, fixed: measured or warmup; in open loop arrivals *)
              (* may be dropped and, unlike in closed loop, the phase does *)
              (* not look at its parent again before it returns            *)
  status,     (* per request: where it stands, or how it ended             *)
  cancelled,  (* the parent context is cancelled                           *)
  boundary,   (* "open", or the callback that stopped admission first      *)
  reported,   (* onParentCancellation has been called                      *)
  verdict     (* "running", then the error the phase returned with         *)

vars == <<kind, status, cancelled, boundary, reported, verdict>>

Init ==
  /\ kind \in [measured : BOOLEAN, openLoop : BOOLEAN]
  /\ status = [s \in 1 .. Requests |-> "pending"]
  /\ cancelled \in BOOLEAN
  /\ boundary = "open"
  /\ reported = FALSE
  /\ verdict = "running"

Statuses == {status[s] : s \in 1 .. Requests}

Admit(s) ==
  /\ verdict = "running"
  /\ status[s] = "pending"
  /\ status' = [status EXCEPT ![s] = "admitted"]
  /\ UNCHANGED <<kind, cancelled, boundary, reported, verdict>>

(* arrivals the client could not start: over the in-flight limit, or late  *)
Drop(S) ==
  /\ verdict = "running"
  /\ kind.openLoop
  /\ \A s \in S : status[s] = "pending"
  /\ status' = [s \in 1 .. Requests |-> IF s \in S THEN "dropped" ELSE status[s]]
  /\ UNCHANGED <<kind, cancelled, boundary, reported, verdict>>

(* a request is called parent_cancelled only when the parent is, and is    *)
(* drained only after the measured phase stopped admission                 *)
Finish(s, outcome) ==
  /\ verdict = "running"
  /\ status[s] = "admitted"
  /\ outcome = "parent_cancelled" => cancelled
  /\ outcome = "drain_timeout" => kind.measured /\ boundary # "open"
  /\ status' = [status EXCEPT ![s] = outcome]
  /\ UNCHANGED <<kind, cancelled, boundary, reported, verdict>>

Close(reason) == boundary' = IF boundary = "open" THEN reason ELSE boundary

StopAdmission ==
  /\ verdict = "running"
  /\ kind.measured
  /\ Close("limit")
  /\ UNCHANGED <<kind, status, cancelled, reported, verdict>>

ReportCancellation ==
  /\ verdict = "running"
  /\ cancelled
  /\ reported' = TRUE
  /\ Close("parent")
  /\ UNCHANGED <<kind, status, cancelled, verdict>>

CancelParent ==
  /\ cancelled' = TRUE
  /\ UNCHANGED <<kind, status, boundary, reported, verdict>>

(* The phase returns drained; without an error only when it accounted for  *)
(* every request and stopped admission itself.                             *)
Return(err) ==
  /\ verdict = "running"
  /\ "admitted" \notin Statuses
  /\ err = "none" => /\ "pending" \notin Statuses
                     /\ ~reported
                     /\ kind.measured => boundary = "limit"
                     /\ cancelled => kind.openLoop
  /\ err = "drain" => kind.measured /\ boundary # "open"
  /\ "drain_timeout" \in Statuses => err = "drain"
  /\ err = "parent" => cancelled
  /\ IF err = "parent" \/ (cancelled /\ ~kind.openLoop)
     THEN reported' = TRUE /\ Close("parent")
     ELSE UNCHANGED <<reported, boundary>>
  /\ verdict' = err
  /\ UNCHANGED <<kind, status, cancelled>>

Next ==
  \/ \E s \in 1 .. Requests : Admit(s) \/ \E outcome \in Outcome : Finish(s, outcome)
  \/ \E S \in SUBSET (1 .. Requests) : Drop(S)
  \/ StopAdmission
  \/ ReportCancellation
  \/ CancelParent
  \/ \E err \in {"none", "parent", "drain"} : Return(err)

Spec == Init /\ [][Next]_vars

=============================================================================
