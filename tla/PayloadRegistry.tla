--------------------------- MODULE PayloadRegistry --------------------------
(***************************************************************************)
(* vigine::payload::AbstractPayloadRegistry: who owns which payload ids.   *)
(* Ranges are inclusive; the engine's own are registered by the            *)
(* constructor and lie in the lower half of the ids.  Every call is one    *)
(* critical section.                                                       *)
(***************************************************************************)
EXTENDS Lists

CONSTANTS
    MaxId, ReservedEnd,       \* the last id, and the last of the engine's half
    Owners, EngineOwner,
    EngineRanges,             \* what the constructor registers: <<min, max>>
    MaxRanges                 \* bound of the model

ASSUME PayloadAssumption ==
    /\ MaxId \in Nat /\ ReservedEnd \in 0 .. MaxId - 1 /\ MaxRanges \in Nat
    /\ EngineRanges \in Seq((0 .. ReservedEnd) \X (0 .. ReservedEnd))
    /\ \A j, k \in 1 .. Len(EngineRanges) :      \* or the constructor throws
          j < k => ~(/\ EngineRanges[j][1] <= EngineRanges[k][2]
                     /\ EngineRanges[k][1] <= EngineRanges[j][2])

VARIABLES ranges, ceded       \* ceded: history, the engine's ranges were unregistered

payloadVars == <<ranges, ceded>>

Ids == 0 .. MaxId
UserBegin == ReservedEnd + 1

Entry(min, max, owner) == [min |-> min, max |-> max, owner |-> owner]
Contains(r, id) == r.min <= id /\ id <= r.max
Entries == Elems(ranges)

PayloadInit ==
    /\ ranges = [k \in 1 .. Len(EngineRanges) |->
                    Entry(EngineRanges[k][1], EngineRanges[k][2], EngineOwner)]
    /\ ceded = FALSE

(* Mutant: two ranges overlap when the new one begins inside the old one.  *)
BeginsInside(r, min, max) == Contains(r, min)

RangesOverlap(r, min, max) == r.min <= max /\ min <= r.max

OneHalf(min, max) == max <= ReservedEnd \/ min >= UserBegin

RegisterRange(min, max, owner) ==
    /\ min <= max /\ OneHalf(min, max)
    /\ \A r \in Entries : ~RangesOverlap(r, min, max)
    /\ Len(ranges) < MaxRanges
    /\ ranges' = Append(ranges, Entry(min, max, owner))
    /\ UNCHANGED ceded

(* unregister(): any caller may name any owner, the engine too.            *)
UnregisterOwner(owner) ==
    /\ ranges' = Only(ranges, {r \in Entries : r.owner # owner})
    /\ ceded' = (ceded \/ owner = EngineOwner)

PayloadNext ==
    \/ \E min, max \in Ids, owner \in Owners : RegisterRange(min, max, owner)
    \/ \E owner \in Owners : UnregisterOwner(owner)

-----------------------------------------------------------------------------
(* Every id has at most one owner, no range crosses into the other half,   *)
(* and the engine's ids are the engine's until it gives them up, however   *)
(* ranges are registered and dropped.                                      *)
RangesStayApart ==
    /\ \A id \in Ids : \A j, k \in 1 .. Len(ranges) :
          Contains(ranges[j], id) /\ Contains(ranges[k], id) => j = k
    /\ \A r \in Entries : OneHalf(r.min, r.max)
    /\ ceded \/ \A k \in 1 .. Len(EngineRanges) :
          Entry(EngineRanges[k][1], EngineRanges[k][2], EngineOwner) \in Entries
=============================================================================
