--------------------------- MODULE ArtifactStore ---------------------------
(***************************************************************************)
(* ArtifactStore: artifacts by key under a budget of bytes, the least      *)
(* recently used ones evicted, pinned ones kept.  An evicted entry stays   *)
(* as a mark that its data can be rebuilt.                                 *)
(***************************************************************************)
EXTENDS Integers, FiniteSets

CONSTANTS
  Keys,
  Sizes,      (* extents of artifacts, in bytes                            *)
  Formats,
  Budget,     (* budget_                                                   *)
  MaxClock    (* bound of clock_                                           *)

ASSUME StoreAssumption == Sizes \subseteq Nat /\ Budget \in Nat

VARIABLES
  entries,    (* the map, as a function on the keys it has                 *)
  used,       (* used_                                                     *)
  clock,      (* clock_                                                    *)
  answer      (* the keys the last call named, and what it returned        *)

storeVars == <<entries, used, clock, answer>>

StoreInit ==
  /\ entries = [k \in {} |-> 0]
  /\ used = 0 /\ clock = 0
  /\ answer = [keys |-> {}, error |-> "ok"]

Has(k) == k \in DOMAIN entries

Materialized(es) == {k \in DOMAIN es : ~es[k].evicted}

Without(es, k) == [j \in DOMAIN es \ {k} |-> es[j]]

With(es, k, e) == [j \in DOMAIN es \union {k} |-> IF j = k THEN e ELSE es[j]]

(* Wrong: a pinned entry is as good a victim as any.                       *)
VictimsAny(es) == Materialized(es)

Victims(es) == {k \in Materialized(es) : ~es[k].pinned}

(* One victim of evict_until_fits(), if it needs one and there is one.     *)
EvictOldest(s) ==
  LET free == Victims(s.entries)
      oldest == CHOOSE k \in free : \A j \in free :
                  s.entries[k].recency <= s.entries[j].recency
  IN  IF s.used <= Budget \/ free = {} THEN s
      ELSE [entries |-> [s.entries EXCEPT ![oldest].evicted = TRUE,
                                          ![oldest].size = 0],
            used |-> s.used - s.entries[oldest].size]

(* evict_until_fits(): there is a victim for each entry at most.           *)
Evicted(es, bytes) ==
  LET after[n \in 0..Cardinality(DOMAIN es)] ==
        IF n = 0 THEN [entries |-> es, used |-> bytes]
        ELSE EvictOldest(after[n - 1])
  IN  after[Cardinality(DOMAIN es)]

(* Wrong: the bytes of the entry that goes stay counted.                   *)
FreedNever(k) == 0

Freed(k) == IF Has(k) /\ ~entries[k].evicted THEN entries[k].size ELSE 0

(* A new entry takes the place of the old, whatever that was.              *)
Put(k, size, format) ==
  LET entry == [size |-> size, format |-> format, pinned |-> FALSE,
                evicted |-> FALSE, recency |-> clock + 1]
      after == Evicted(With(entries, k, entry), used - Freed(k) + size)
  IN  IF size > Budget
      THEN /\ answer' = [keys |-> {k}, error |-> "too_large"]
           /\ UNCHANGED <<entries, used, clock>>
      ELSE /\ clock < MaxClock /\ clock' = clock + 1
           /\ entries' = after.entries /\ used' = after.used
           /\ answer' = [keys |-> {k}, error |-> "ok"]

GetError(k, format) ==
  IF ~Has(k) THEN "not_found"
  ELSE IF entries[k].evicted THEN "evicted"
  ELSE IF entries[k].format # format THEN "format_mismatch" ELSE "ok"

(* The recency counts a lookup also when its format is the wrong one.      *)
Get(k, format) ==
  LET error == GetError(k, format)
      found == error \in {"ok", "format_mismatch"}
  IN  /\ found => clock < MaxClock
      /\ clock' = IF found THEN clock + 1 ELSE clock
      /\ entries' = IF found THEN [entries EXCEPT ![k].recency = clock + 1]
                    ELSE entries
      /\ answer' = [keys |-> {k}, error |-> error]
      /\ UNCHANGED used

SetPin(k, pinned) ==
  /\ Has(k)
  /\ entries' = [entries EXCEPT ![k].pinned = pinned]
  /\ answer' = [keys |-> {k}, error |-> "ok"]
  /\ UNCHANGED <<used, clock>>

Erase(k) ==
  /\ Has(k)
  /\ entries' = Without(entries, k)
  /\ used' = used - Freed(k)
  /\ answer' = [keys |-> {k}, error |-> "ok"]
  /\ UNCHANGED clock

Clear ==
  /\ entries' = [k \in {} |-> 0]
  /\ used' = 0
  /\ answer' = [keys |-> Keys, error |-> "ok"]
  /\ UNCHANGED clock

StoreNext ==
  \/ \E k \in Keys :
       \/ \E size \in Sizes, format \in Formats : Put(k, size, format)
       \/ \E format \in Formats : Get(k, format)
       \/ \E pinned \in BOOLEAN : SetPin(k, pinned)
       \/ Erase(k)
  \/ Clear

StoreSpec == StoreInit /\ [][StoreNext]_storeVars

-----------------------------------------------------------------------------
(* The bytes of the entries that have their data.                          *)
StoredBytes(es) == UNION {{k} \X (1..es[k].size) : k \in Materialized(es)}

(* The bytes counted are those of the entries that have their data, and    *)
(* they are within the budget after every call: a put that finds the rest  *)
(* pinned gives up its own data.                                           *)
LedgerAgrees ==
  /\ used = Cardinality(StoredBytes(entries))
  /\ used <= Budget

(* An entry that keeps its pin keeps its data: only its own put, erase and *)
(* clear change it.                                                        *)
PinnedStay ==
  [][\A k \in DOMAIN entries :
       entries[k].pinned /\ ~entries[k].evicted /\ k \notin answer'.keys
       => k \in DOMAIN entries' /\ entries'[k] = entries[k]]_storeVars
=============================================================================
