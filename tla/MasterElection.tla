--------------------------- MODULE MasterElection ---------------------------
(***************************************************************************)
(* The workers of a queue elect the one that listens for its waiting jobs: *)
(* a Redis key with a TTL, renewed by its owner in two commands            *)
(* (packages/client/src/lib/master.ts), and a check every two seconds that *)
(* subscribes the master and unsubscribes the others (waitingJobsEvent in  *)
(* packages/client/src/worker.ts).                                         *)
(***************************************************************************)
EXTENDS Naturals

CONSTANTS
  Workers,
  MaxFaults,   \* bound on the crashes and on the pauses longer than the TTL
  MaxOpening,  \* bound on the subscriptions of a worker that are not ready yet
  Nobody,
  Stranger     \* the id of a worker that is gone

ASSUME ElectionAssumption ==
  /\ Nobody \notin Workers /\ Stranger \notin Workers \union {Nobody}
  /\ MaxFaults \in Nat
  /\ MaxOpening \in Nat \ {0}

VARIABLES
  owner,    \* bbb:waiting-jobs-lock:<queue>
  election, \* of each worker: isMaster, and where it is in onlyMaster
  sub,      \* of each worker: the variables of waitingJobsEvent
  faults

vars == <<owner, election, sub, faults>>

Steps == {"start", "idle", "extend", "acquire", "dead"}

Election == [master : BOOLEAN, at : Steps]

(* listener is set, handler is attached to it; opening calls wait for the  *)
(* listener to be ready; a call waits for it to be disconnected.           *)
Subscription == [subscribed : BOOLEAN, listener : BOOLEAN, attached : BOOLEAN,
                 opening : 0..MaxOpening, closing : BOOLEAN]

Unborn == [master |-> FALSE, at |-> "start"]

NoListener == [subscribed |-> FALSE, listener |-> FALSE, attached |-> FALSE,
               opening |-> 0, closing |-> FALSE]

Alive(w) == election[w].at # "dead"

Elected(w, isMaster) == election' = [election EXCEPT ![w] = [master |-> isMaster, at |-> "idle"]]

Fault == faults < MaxFaults /\ faults' = faults + 1

-----------------------------------------------------------------------------
(* master.ts.                                                              *)

(* SET key id PX ttl NX: onlyMaster, and renewLock after GET found no key. *)
AcquireLock(w) ==
  /\ election[w].at \in {"start", "acquire"}
  /\ owner' = IF owner = Nobody THEN w ELSE owner
  /\ Elected(w, owner = Nobody)
  /\ UNCHANGED <<sub, faults>>

(* Mutant of Owns: any owner will do.                                      *)
OwnsAny(w) == owner # Nobody

Owns(w) == owner = w

(* renewLock: what GET answers decides what comes next.                    *)
GetOwner(w) ==
  /\ election[w].at = "idle"
  /\ \/ Owns(w) /\ election' = [election EXCEPT ![w].at = "extend"]
     \/ owner = Nobody /\ election' = [election EXCEPT ![w].at = "acquire"]
     \/ owner # Nobody /\ ~Owns(w) /\ Elected(w, FALSE)
  /\ UNCHANGED <<owner, sub, faults>>

(* PEXPIRE extends the key, whoever owns it by now; true in any case.      *)
Extend(w) ==
  /\ election[w].at = "extend"
  /\ Elected(w, TRUE)
  /\ UNCHANGED <<owner, sub, faults>>

(* Nobody renews the key of a worker that is gone.                         *)
Expire ==
  /\ owner = Stranger
  /\ owner' = Nobody
  /\ UNCHANGED <<election, sub, faults>>

(* The owner has not renewed in time.                                      *)
ExpireEarly ==
  /\ owner \in Workers
  /\ Fault
  /\ owner' = Nobody
  /\ UNCHANGED <<election, sub>>

-----------------------------------------------------------------------------
(* ensureSubscription, which setInterval calls while earlier calls wait.   *)

Subscribe(w) ==
  /\ Alive(w)
  /\ election[w].master
  /\ ~sub[w].subscribed
  /\ sub[w].opening < MaxOpening
  /\ sub' = [sub EXCEPT ![w] = [@ EXCEPT !.subscribed = TRUE, !.listener = TRUE,
                                         !.opening = @ + 1]]
  /\ UNCHANGED <<owner, election, faults>>

(* waitUntilReady is over.                                                 *)
Attach(w) ==
  /\ sub[w].opening > 0
  /\ sub[w].listener
  /\ sub' = [sub EXCEPT ![w] = [@ EXCEPT !.attached = TRUE, !.opening = @ - 1]]
  /\ UNCHANGED <<owner, election, faults>>

Unsubscribe(w) ==
  /\ Alive(w)
  /\ ~election[w].master
  /\ sub[w].subscribed /\ sub[w].listener /\ ~sub[w].closing
  /\ sub' = [sub EXCEPT ![w] = [@ EXCEPT !.attached = FALSE, !.closing = TRUE]]
  /\ UNCHANGED <<owner, election, faults>>

(* disconnect is over, within the two seconds to the next check.           *)
Disconnected(w) ==
  /\ sub[w].closing
  /\ sub' = [sub EXCEPT ![w] = [NoListener EXCEPT !.opening = sub[w].opening]]
  /\ UNCHANGED <<owner, election, faults>>

-----------------------------------------------------------------------------
Die(w) ==
  /\ owner' = IF owner = w THEN Stranger ELSE owner
  /\ election' = [election EXCEPT ![w] = [master |-> FALSE, at |-> "dead"]]
  /\ sub' = [sub EXCEPT ![w] = NoListener]

Crash(w) ==
  /\ Alive(w)
  /\ Fault
  /\ Die(w)

(* The listener became null while a call waited for it to be ready: the    *)
(* rejection that follows is handled by nobody.                            *)
AttachToNull(w) ==
  /\ sub[w].opening > 0
  /\ ~sub[w].listener
  /\ Die(w)
  /\ UNCHANGED faults

(* A new process: its worker has an id of its own.                         *)
Restart(w) ==
  /\ ~Alive(w)
  /\ election' = [election EXCEPT ![w] = Unborn]
  /\ UNCHANGED <<owner, sub, faults>>

-----------------------------------------------------------------------------
Init ==
  /\ owner = Nobody
  /\ election = [w \in Workers |-> Unborn]
  /\ sub = [w \in Workers |-> NoListener]
  /\ faults = 0

Elect(w) == AcquireLock(w) \/ GetOwner(w) \/ Extend(w)

EnsureSubscription(w) ==
  Subscribe(w) \/ Attach(w) \/ Unsubscribe(w) \/ Disconnected(w) \/ AttachToNull(w)

Next ==
  \/ \E w \in Workers : Elect(w) \/ EnsureSubscription(w) \/ Crash(w) \/ Restart(w)
  \/ Expire \/ ExpireEarly

Spec == Init /\ [][Next]_vars

(* Timers and commands go on in a live process, Redis drops a key past its *)
(* TTL, a dead worker is started again.                                    *)
FairSpec ==
  /\ Spec
  /\ \A w \in Workers :
       /\ WF_vars(AcquireLock(w)) /\ WF_vars(GetOwner(w)) /\ WF_vars(Extend(w))
       /\ WF_vars(Subscribe(w)) /\ WF_vars(Unsubscribe(w))
       /\ WF_vars(Attach(w) \/ AttachToNull(w)) /\ WF_vars(Disconnected(w))
       /\ WF_vars(Restart(w))
  /\ WF_vars(Expire)

-----------------------------------------------------------------------------
(* Every variable has its type, and a dead worker listens to nothing.      *)
TypeOK ==
  /\ owner \in Workers \union {Nobody, Stranger}
  /\ election \in [Workers -> Election]
  /\ sub \in [Workers -> Subscription]
  /\ \A w \in Workers : sub[w].attached => sub[w].subscribed /\ sub[w].listener /\ Alive(w)
  /\ faults \in 0..MaxFaults

(* Whatever happened (a key renewed for another worker, a key extended     *)
(* after its TTL, a listener lost half way), once it stops happening one   *)
(* worker is master and listens for waiting jobs, and no other one is or   *)
(* does.                                                                   *)
ElectionSettles ==
  <>[](\E w \in Workers : \A v \in Workers :
         (election[v].master <=> v = w) /\ (sub[v].attached <=> v = w))

=============================================================================
