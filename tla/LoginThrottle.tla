---------------------------- MODULE LoginThrottle ----------------------------
(***************************************************************************)
(* The login of the administrator (apps/web/src/routes/auth.ts) behind its *)
(* throttle (apps/web/src/auth/login-throttle.ts).  The throttle keeps the *)
(* times of the failed logins of a user name and address, drops them when  *)
(* they are older than a window, and locks the entry for a window at the   *)
(* last failure it allows.  It looks for expired entries only when one is  *)
(* due: nextExpiryAt saves the scan of every request.                      *)
(***************************************************************************)
EXTENDS Naturals, Sequences, FiniteSets

CONSTANTS
  LoginKeys,   \* pairs of a user name and a source address
  Window,      \* WINDOW_MS
  MaxFailures, \* MAX_FAILURES (5)
  MaxEntries,  \* DEFAULT_MAX_ENTRIES (10 000)
  Never        \* Number.POSITIVE_INFINITY for nextExpiryAt, null for lockedUntil

ASSUME ThrottleAssumption ==
  /\ Window \in Nat \ {0} /\ MaxFailures \in Nat \ {0} /\ MaxEntries \in Nat \ {0}
  /\ Never \notin Nat

VARIABLES
  clock,        \* the time
  attempts,     \* for each key its failures and lockedUntil
  nextExpiryAt, \* when an entry may have to be dropped
  guesses       \* when a wrong password was compared for the key (history)

throttleVars == <<clock, attempts, nextExpiryAt, guesses>>

Entries == [failures : Seq(Nat), lockedUntil : Nat \cup {Never}]

\* A key that is not in the map: an entry of the map has a failure.
NoEntry == [failures |-> <<>>, lockedUntil |-> Never]

Tracked(entries) == {k \in LoginKeys : entries[k] # NoEntry}

Locked(entry) == entry.lockedUntil # Never

\* A failure exactly one window old is still inside the window.
Expiry(entry) ==
  IF Locked(entry) THEN entry.lockedUntil ELSE Head(entry.failures) + Window + 1

\* Math.min over a set of times, as a relation.
Soonest(times, t) ==
  \/ times = {} /\ t = Never
  \/ t \in times /\ \A u \in times : t <= u

Expiries(entries) == {Expiry(entries[k]) : k \in Tracked(entries)}

Old(time) == time + Window < clock

\* Failures are in the order of time: what the filter drops is a prefix.
FirstRecent(failures) ==
  CHOOSE n \in 1 .. Len(failures) + 1 :
    /\ \A i \in 1 .. n - 1 : Old(failures[i])
    /\ n <= Len(failures) => ~Old(failures[n])

Pruned(failures) == SubSeq(failures, FirstRecent(failures), Len(failures))

Kept(entry) ==
  IF Locked(entry)
  THEN IF entry.lockedUntil <= clock THEN NoEntry ELSE entry
  ELSE [entry EXCEPT !.failures = Pruned(@)]

Scanned == [k \in LoginKeys |-> Kept(attempts[k])]

\* cleanupExpiredEntries leaves these entries and this time of the next one.
Cleaned(entries, expiry) ==
  IF nextExpiryAt = Never \/ clock < nextExpiryAt
  THEN entries = attempts /\ expiry = nextExpiryAt
  ELSE entries = Scanned /\ Soonest(Expiries(Scanned), expiry)

Times(entries) == Expiries(entries) \cup {nextExpiryAt, Never}

Allowed(entries, k) ==
  IF entries[k] = NoEntry
  THEN Cardinality(Tracked(entries)) < MaxEntries
  ELSE ~Locked(entries[k])

\* A slip: the lock is counted from the first failure, not from the last.
LockedAtFirst(entry) ==
  IF Len(entry.failures) >= MaxFailures
  THEN [entry EXCEPT !.lockedUntil = Head(entry.failures) + Window]
  ELSE entry

LockAfter(entry) ==
  IF Len(entry.failures) >= MaxFailures THEN [entry EXCEPT !.lockedUntil = clock + Window] ELSE entry

Failed(entry) == LockAfter([entry EXCEPT !.failures = Append(@, clock)])

\* A slip: the next expiry is the one of the entry touched last.
NextExpiryOfLast(expiry, entry) == Expiry(entry)

NextExpiry(expiry, entry) ==
  IF expiry = Never \/ Expiry(entry) < expiry THEN Expiry(entry) ELSE expiry

ThrottleInit ==
  /\ clock = 0 /\ nextExpiryAt = Never
  /\ attempts = [k \in LoginKeys |-> NoEntry]
  /\ guesses = [k \in LoginKeys |-> <<>>]

\* A login with wrong credentials: nothing in the handler is awaited after
\* the body is read, so check and recordFailure are one step.
WrongLogin(k) ==
  \E entries \in {attempts, Scanned} : \E expiry \in Times(entries) :
    /\ Cleaned(entries, expiry)
    /\ IF Allowed(entries, k)
       THEN LET entry == Failed(entries[k]) IN
            /\ attempts' = [entries EXCEPT ![k] = entry]
            /\ nextExpiryAt' = NextExpiry(expiry, entry)
            /\ guesses' = [guesses EXCEPT ![k] = Append(@, clock)]
       ELSE /\ attempts' = entries /\ nextExpiryAt' = expiry
            /\ UNCHANGED guesses
    /\ UNCHANGED clock

\* A login with the right ones is refused while its entry is locked, or
\* while the map is full of other keys.
RightLogin(k) ==
  \E entries \in {attempts, Scanned} : \E expiry \in Times(entries) :
    /\ Cleaned(entries, expiry)
    /\ nextExpiryAt' = expiry
    /\ IF Allowed(entries, k)
       THEN /\ attempts' = [entries EXCEPT ![k] = NoEntry]
            /\ guesses' = [guesses EXCEPT ![k] = <<>>]
       ELSE attempts' = entries /\ UNCHANGED guesses
    /\ UNCHANGED clock

TimePasses == clock' = clock + 1 /\ UNCHANGED <<attempts, nextExpiryAt, guesses>>

ThrottleNext ==
  \/ \E k \in LoginKeys : WrongLogin(k) \/ RightLogin(k)
  \/ TimePasses

ThrottleSpec == ThrottleInit /\ [][ThrottleNext]_throttleVars

-----------------------------------------------------------------------------
(* However the failures of several keys, the scans and the locks fall, no  *)
(* more than MAX_FAILURES passwords of a key are compared, since its last  *)
(* right one, in a window: the next one comes at least a window after.     *)
GuessesAreBounded ==
  \A k \in LoginKeys : \A n \in DOMAIN guesses[k] :
    n > MaxFailures => guesses[k][n] >= guesses[k][n - MaxFailures] + Window

(* Nobody is locked out for old failures: the scan that one key puts off   *)
(* by nextExpiryAt is never one that another key needs.  The failures of a *)
(* lock are all within one window of the last.                             *)
LocksAreDeserved ==
  \A k \in LoginKeys :
    Locked(attempts[k]) =>
      /\ Len(attempts[k].failures) >= MaxFailures
      /\ Head(attempts[k].failures) + 2 * Window >= attempts[k].lockedUntil

(* What makes the saved scans sound: no entry expires before nextExpiryAt. *)
NextExpiryIsEarly ==
  \A k \in Tracked(attempts) : nextExpiryAt # Never /\ nextExpiryAt <= Expiry(attempts[k])
=============================================================================
