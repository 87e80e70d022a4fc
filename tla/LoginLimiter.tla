----------------------------- MODULE LoginLimiter -----------------------------
(***************************************************************************)
(* The login limiter of the activist backend: a map in memory, guarded by  *)
(* a mutex, from login and address to failures and the end of a block.     *)
(*                                                                         *)
(* A login attempt reads the clock once, asks Allow, looks the user up and *)
(* verifies the password, and reports the outcome to the limiter.  Each    *)
(* call of the limiter is atomic; between them other attempts run and time *)
(* passes, so that a failure may be registered with an old reading of the  *)
(* clock, or for a key that another attempt has blocked meanwhile.         *)
(***************************************************************************)
EXTENDS Integers, FiniteSets

CONSTANTS
  Attempt,      \* logins in progress at the same time (goroutines)
  Key,          \* login and address, see loginLimiterKey
  None,         \* no key
  MaxFailures,  \* LoginLimiter.maxFailures
  BlockFor,     \* LoginLimiter.blockFor
  MaxTime       \* bound: the clock stops here

ASSUME FiniteAttempts == IsFiniteSet(Attempt)
ASSUME NoneIsNoKey == None \notin Key
ASSUME LimiterConfig == MaxFailures \in Nat \ {0} /\ BlockFor \in Nat \ {0}
ASSUME MaxTimeType == MaxTime \in Nat

VARIABLES
  clock,    \* time.Now, which does not go back
  entries,  \* LoginLimiter.entries; a key without an entry has the zero entry
  pc,       \* what each attempt does next
  key,      \* the key of each attempt
  at,       \* its reading of the clock
  strikes   \* history: failures registered since the key was last forgiven

vars == <<clock, entries, pc, key, at, strikes>>

Entry   == [failures : Nat, blockedUntil : Nat]
NoEntry == [failures |-> 0, blockedUntil |-> 0]

TypeOK ==
  /\ clock \in Nat
  /\ entries \in [Key -> Entry]
  /\ pc \in [Attempt -> {"idle", "allow", "verify"}]
  /\ key \in [Attempt -> Key \cup {None}]
  /\ \A a \in Attempt : pc[a] # "idle" => key[a] \in Key
  /\ at \in [Attempt -> Nat]
  /\ strikes \in [Key -> Nat]

Init ==
  /\ clock = 1
  /\ entries = [k \in Key |-> NoEntry]
  /\ pc = [a \in Attempt |-> "idle"]
  /\ key = [a \in Attempt |-> None]
  /\ at = [a \in Attempt |-> 0]
  /\ strikes = [k \in Key |-> 0]

-----------------------------------------------------------------------------
(* The limiter.                                                             *)

Blocks(k, now) == now < entries[k].blockedUntil

\* Mutant: the block is lifted and the failures stay.
LiftBlock(k) ==
  /\ entries' = [entries EXCEPT ![k].blockedUntil = 0]
  /\ strikes' = [strikes EXCEPT ![k] = 0]

\* Mutant: a success takes back one failure.
ForgiveOne(k) ==
  /\ entries' = [entries EXCEPT ![k] = [failures |-> @.failures - 1,
                                       blockedUntil |-> 0]]
  /\ strikes' = [strikes EXCEPT ![k] = 0]

\* The entry is deleted: by Reset, or by Allow once its block is over.
Forgive(k) ==
  /\ entries' = [entries EXCEPT ![k] = NoEntry]
  /\ strikes' = [strikes EXCEPT ![k] = 0]

\* Mutant: one failure more than maxFailures.
EntryAfterOneMore(e, now) ==
  IF e.failures + 1 > MaxFailures
  THEN [failures |-> 0, blockedUntil |-> now + BlockFor]
  ELSE [e EXCEPT !.failures = @ + 1]

\* RegisterFailure: the failure that reaches maxFailures starts a block, from
\* the attempt's reading of the clock; the others leave a block as it is.
EntryAfterFailure(e, now) ==
  IF e.failures + 1 >= MaxFailures
  THEN [failures |-> 0, blockedUntil |-> now + BlockFor]
  ELSE [e EXCEPT !.failures = @ + 1]

-----------------------------------------------------------------------------
(* Service.Login.                                                           *)

Begin(a, k) ==
  /\ pc[a] = "idle"
  /\ pc' = [pc EXCEPT ![a] = "allow"]
  /\ key' = [key EXCEPT ![a] = k]
  /\ at' = [at EXCEPT ![a] = clock]
  /\ UNCHANGED <<clock, entries, strikes>>

Finish(a) ==
  /\ pc' = [pc EXCEPT ![a] = "idle"]
  /\ key' = [key EXCEPT ![a] = None]
  /\ at' = [at EXCEPT ![a] = 0]
  /\ UNCHANGED clock

\* Allow, with an entry whose block is over or without a block.
Allow(a) ==
  /\ pc[a] = "allow"
  /\ ~Blocks(key[a], at[a])
  /\ IF entries[key[a]].blockedUntil # 0 THEN Forgive(key[a])
     ELSE UNCHANGED <<entries, strikes>>
  /\ pc' = [pc EXCEPT ![a] = "verify"]
  /\ UNCHANGED <<clock, key, at>>

\* ErrRateLimited.
Refuse(a) ==
  /\ pc[a] = "allow"
  /\ Blocks(key[a], at[a])
  /\ UNCHANGED <<entries, strikes>>
  /\ Finish(a)

\* Unknown login or wrong password: ErrInvalidCredentials.
Reject(a) ==
  /\ pc[a] = "verify"
  /\ entries' = [entries EXCEPT ![key[a]] = EntryAfterFailure(@, at[a])]
  /\ strikes' = [strikes EXCEPT ![key[a]] = @ + 1]
  /\ Finish(a)

\* The password is right: Reset, then a session (Session).
Accept(a) ==
  /\ pc[a] = "verify"
  /\ Forgive(key[a])
  /\ Finish(a)

\* The lookup fails for another reason: nothing is registered.
Fail(a) ==
  /\ pc[a] = "verify"
  /\ UNCHANGED <<entries, strikes>>
  /\ Finish(a)

\* The process starts again with an empty map.
Restart ==
  /\ entries' = [k \in Key |-> NoEntry]
  /\ strikes' = [k \in Key |-> 0]
  /\ pc' = [a \in Attempt |-> "idle"]
  /\ key' = [a \in Attempt |-> None]
  /\ at' = [a \in Attempt |-> 0]
  /\ UNCHANGED clock

Tick ==
  /\ clock < MaxTime
  /\ clock' = clock + 1
  /\ UNCHANGED <<entries, pc, key, at, strikes>>

Next ==
  \/ \E a \in Attempt :
       \/ \E k \in Key : Begin(a, k)
       \/ Allow(a) \/ Refuse(a) \/ Reject(a) \/ Accept(a) \/ Fail(a)
  \/ Restart \/ Tick

Spec == Init /\ [][Next]_vars

-----------------------------------------------------------------------------
(* Properties.                                                              *)

\* Attempts in parallel get past the limiter, but not many: between two times
\* a key is forgiven, all but the failures that lead to a block come from
\* attempts that were under way when the block began.
GuessesAreBounded ==
  \A k \in Key : strikes[k] <= MaxFailures - 1 + Cardinality(Attempt)

\* A key is blocked by its own failures only, enough of them, and for blockFor
\* from now at the longest, however old the readings of the clock are.
LockoutIsEarned ==
  \A k \in Key : entries[k].blockedUntil # 0 =>
     strikes[k] >= MaxFailures /\ entries[k].blockedUntil <= clock + BlockFor

=============================================================================
