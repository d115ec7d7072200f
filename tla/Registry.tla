------------------------------ MODULE Registry -------------------------------
(***************************************************************************)
(* engine/registry.ts: the map from a bot id to its current driver and the *)
(* retries it has used.  Drivers of an id are numbered from 1 in the order *)
(* they are created; driver 0 in an entry means the map has no such key.   *)
(***************************************************************************)
EXTENDS Integers

CONSTANTS Bots,        \* the bot ids of a run
          MaxDrivers   \* drivers of one id that the model can tell apart

ASSUME MaxDriversAssumption == MaxDrivers \in Nat \ {0}

Absent == [bot |-> 0, retries |-> 0]

Entries == [bot : 0 .. MaxDrivers, retries : Nat]

NewRegistry == [id \in Bots |-> Absent]

has(registry, id) == registry[id].bot # 0

add(registry, id, driver) ==
  [registry EXCEPT ![id] = [bot |-> driver, retries |-> 0]]

\* Mutant of replace: the entry keeps the driver that has ended.
replaceForgets(registry, id, driver) == registry

replace(registry, id, driver) ==
  IF has(registry, id) THEN [registry EXCEPT ![id].bot = driver] ELSE registry

\* incRetry() gives Infinity for an id it does not hold, which exceeds any limit.
incRetry(registry, id) ==
  IF has(registry, id) THEN [registry EXCEPT ![id].retries = @ + 1] ELSE registry

\* Mutant of RetriesExceed: one retry too many.
RetriesExceedLate(registry, id, limit) ==
  has(registry, id) => registry[id].retries > limit + 1

RetriesExceed(registry, id, limit) ==
  has(registry, id) => registry[id].retries > limit

remove(registry, id) == [registry EXCEPT ![id] = Absent]

\* The drivers all() returns, as pairs of an id and the number of its driver.
all(registry) == {<<id, registry[id].bot>> : id \in {i \in Bots : has(registry, i)}}
=============================================================================
