-------------------------------- MODULE Dedup --------------------------------
(***************************************************************************)
(* The deduplication window (internal/dedup): the keys of packets that were*)
(* let through, with the time each was recorded.  Every method runs under  *)
(* Dedup.mu and is atomic; a caller that asks Seen and then calls Record   *)
(* holds no lock in between.                                               *)
(***************************************************************************)
EXTENDS Integers, FiniteSets, Functions

CONSTANTS
    Window,         \* duration of the window
    MaxTime         \* bound on the clock, for model checking

(* config.Validate refuses a window that is not positive. *)
ASSUME WindowAssumption == Window \in Nat \ {0} /\ MaxTime \in Nat

VARIABLES
    seen,           \* key -> time it was recorded
    now             \* the clock, in units that divide Window

dedupVars == <<seen, now>>

DedupInit == seen = << >> /\ now = 0

(* Seen does not look at the age of the key. *)
Seen(key) == key \in DOMAIN seen

(* Mutant: the key is recorded with the time it expires at. *)
RecordExpiry(key) ==
    seen' = [k \in DOMAIN seen \cup {key} |->
               IF k \in DOMAIN seen THEN seen[k] ELSE now + Window]

(* A key that is present keeps its time. *)
Record(key) ==
    seen' = [k \in DOMAIN seen \cup {key} |->
               IF k \in DOMAIN seen THEN seen[k] ELSE now]

(* Mutant: the key stays. *)
ReleaseNothing(key) == seen' = seen

Release(key) == seen' = Restrict(seen, DOMAIN seen \ {key})

IsExpired(key) == now - seen[key] >= Window

PurgeExpired ==
    /\ seen' = Restrict(seen, {k \in DOMAIN seen : ~ IsExpired(k)})
    /\ UNCHANGED now

Tick ==
    /\ now < MaxTime
    /\ now' = now + 1
    /\ UNCHANGED seen

=============================================================================
