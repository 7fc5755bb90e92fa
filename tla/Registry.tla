------------------------------ MODULE Registry -------------------------------
(* The market registry of a section (internal/markets/registry.go): an        *)
(* atomic pointer to an immutable snapshot, loaded by the first Get, replaced *)
(* by every Refresh, one load at a time under loadMu.                         *)
(*                                                                            *)
(* Listings are the lists of markets the exchange has had, oldest first; a    *)
(* snapshot is known by the listing it was built from.                        *)
EXTENDS Integers, Sequences, FiniteSets

CONSTANTS Listings,   \* sequence of sets of markets [symbol, id, type, digits]
          MarketType, \* the section's market type
          Readers,    \* the calls that Get the registry
          Refreshers, \* the background loop and the callers of Refresh
          NoOne

ASSUME RegistryAssumption == /\ Listings \in Seq(SUBSET [symbol : STRING, id : Nat, type : STRING,
                                                         digits : Nat])
                             /\ Listings # <<>>
                             /\ Readers \cap Refreshers = {} /\ NoOne \notin Readers \cup Refreshers

VARIABLES listed,  \* the exchange: which of the listings is in force
          current, \* r.current: the listing of the snapshot, 0 while it is nil
          loadMu,  \* who holds r.loadMu
          at,      \* thread -> "out", "queue" (for loadMu), "load" or "store"
          got,     \* thread -> the listing its load was answered with, 0 for none
          have     \* reader -> the snapshot its Get returned, 0 for none or an error
registryVars == <<listed, current, loadMu, at, got, have>>

Threads == Readers \cup Refreshers
MaxDigits == 8

RegistryInit == /\ listed = 1 /\ current = 0 /\ loadMu = NoOne
                /\ at = [t \in Threads |-> "out"] /\ got = [t \in Threads |-> 0]
                /\ have = [t \in Readers |-> 0]
-----------------------------------------------------------------------------
(* Snapshots *)

\* LoadMarkets: the section's entries, without those Fixed cannot represent.
entriesOf(l) == {m \in Listings[l] : m.type = MarketType}
LoadMarkets(l) == {m \in entriesOf(l) : m.digits <= MaxDigits}

Known(l, symbol) == \E m \in LoadMarkets(l) : m.symbol = symbol
BySymbol(l, symbol) == CHOOSE m \in LoadMarkets(l) : m.symbol = symbol
ByID(l) == {m.id : m \in LoadMarkets(l)}
\* Peek is nil before the first load: nothing is owned.
Owns(id) == current # 0 /\ id \in ByID(current)
-----------------------------------------------------------------------------
(* Get, Refresh and the load they share *)

Relist == /\ listed < Len(Listings) /\ listed' = listed + 1
          /\ UNCHANGED <<current, loadMu, at, got, have>>

\* The first look, without the lock.
Get(t) == /\ at[t] = "out"
          /\ IF current # 0 THEN have' = [have EXCEPT ![t] = current] /\ UNCHANGED at
             ELSE at' = [at EXCEPT ![t] = "queue"] /\ UNCHANGED have
          /\ UNCHANGED <<listed, current, loadMu, got>>

Refresh(t) == /\ at[t] = "out" /\ at' = [at EXCEPT ![t] = "queue"]
              /\ UNCHANGED <<listed, current, loadMu, got, have>>

LockNone(t) == /\ at[t] = "queue" /\ at' = [at EXCEPT ![t] = "load"]
               /\ UNCHANGED <<listed, current, loadMu, got, have>>
\* A Get looks again under the lock, a Refresh always loads.
Lock(t) ==
  /\ at[t] = "queue" /\ loadMu = NoOne
  /\ IF t \in Readers /\ current # 0
     THEN /\ have' = [have EXCEPT ![t] = current] /\ at' = [at EXCEPT ![t] = "out"]
          /\ UNCHANGED loadMu
     ELSE loadMu' = t /\ at' = [at EXCEPT ![t] = "load"] /\ UNCHANGED have
  /\ UNCHANGED <<listed, current, got>>

\* The exchange answers the loader with the listing of that moment.
Load(t) == /\ at[t] = "load" /\ at' = [at EXCEPT ![t] = "store"]
           /\ got' = [got EXCEPT ![t] = listed]
           /\ UNCHANGED <<listed, current, loadMu, have>>

LoadFailsLocked(t) == /\ at[t] \in {"load", "store"} /\ at' = [at EXCEPT ![t] = "out"]
                      /\ UNCHANGED <<listed, current, loadMu, got, have>>
\* Refused by the limiter, lost, refused by the exchange, not readable, or the
\* caller's context ended.
LoadFails(t) == /\ at[t] \in {"load", "store"} /\ at' = [at EXCEPT ![t] = "out"]
                /\ loadMu' = NoOne /\ got' = [got EXCEPT ![t] = 0]
                /\ UNCHANGED <<listed, current, have>>

Store(t) == /\ at[t] = "store" /\ at' = [at EXCEPT ![t] = "out"]
            /\ current' = got[t] /\ loadMu' = NoOne
            /\ have' = [r \in Readers |-> IF r = t THEN got[t] ELSE have[r]]
            /\ got' = [got EXCEPT ![t] = 0] /\ UNCHANGED listed

LoadStep(t) == Lock(t) \/ Load(t) \/ LoadFails(t) \/ Store(t)
RegistryNext == \/ Relist
                \/ \E t \in Readers : Get(t)
                \/ \E t \in Refreshers : Refresh(t)
                \/ \E t \in Threads : LoadStep(t)
RegistrySpec == RegistryInit /\ [][RegistryNext]_registryVars
-----------------------------------------------------------------------------
RegistryTypeOK ==
  /\ listed \in 1..Len(Listings) /\ current \in 0..Len(Listings)
  /\ loadMu \in Threads \cup {NoOne}
  /\ at \in [Threads -> {"out", "queue", "load", "store"}]
  /\ got \in [Threads -> 0..Len(Listings)] /\ have \in [Readers -> 0..Len(Listings)]

(* registry.go:89 "loadMu serialises loads": a snapshot is never replaced by  *)
(* one of an older answer, whoever loads.                                     *)
MarketsNeverGoBack == [][current' >= current]_current

(* registry.go:18-19 "concurrent first callers share one load": once a        *)
(* snapshot is there, no Get asks the exchange again.                         *)
LoadsShared == \A t \in Readers : at[t] \in {"load", "store"} => current = 0
=============================================================================
