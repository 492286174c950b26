----------------------------- MODULE SidRegistry -----------------------------
(***************************************************************************)
(* SidRegistry: the names and numbers (SIDs) under which YANG identities   *)
(* appear in rule files.  The two maps are updated one after the other;    *)
(* together they must stay one map and its inverse.                        *)
(***************************************************************************)
EXTENDS Naturals, Sequences

CONSTANTS
  Identifiers,   \* identifiers of SID items
  Sids,          \* SID numbers
  Absent         \* a key the map does not have

ASSUME AbsentAssumption == Absent \notin Identifiers /\ Absent \notin Sids

VARIABLES
  by_identifier,  \* the SID of each identifier, or Absent
  by_sid,         \* the identifier of each SID, or Absent
  inserted        \* history: the <<identifier, SID>> pairs inserted, in order

registryVars == <<by_identifier, by_sid, inserted>>

RegistryInit ==
  /\ by_identifier = [i \in Identifiers |-> Absent]
  /\ by_sid = [s \in Sids |-> Absent]
  /\ inserted = <<>>

(* SidRegistry::insert: what an earlier item says of the identifier or of  *)
(* the SID is removed from the other map before the new pair is entered.   *)
Without(map, key) == IF key = Absent THEN map ELSE [map EXCEPT ![key] = Absent]

(* Mutant: the previous SID of the identifier still resolves.              *)
InsertKeepingSid(i, s) ==
  /\ by_identifier' = [Without(by_identifier, by_sid[s]) EXCEPT ![i] = s]
  /\ by_sid' = [by_sid EXCEPT ![s] = i]
  /\ inserted' = Append(inserted, <<i, s>>)

(* Mutant: the previous identifier of the SID still resolves.              *)
InsertKeepingIdentifier(i, s) ==
  /\ by_identifier' = [by_identifier EXCEPT ![i] = s]
  /\ by_sid' = [Without(by_sid, by_identifier[i]) EXCEPT ![s] = i]
  /\ inserted' = Append(inserted, <<i, s>>)

Insert(i, s) ==
  LET unnumbered == Without(by_sid, by_identifier[i])
  IN /\ by_sid' = [unnumbered EXCEPT ![s] = i]
     /\ by_identifier' =
          [Without(by_identifier, unnumbered[s]) EXCEPT ![i] = s]
     /\ inserted' = Append(inserted, <<i, s>>)

InsertAny == \E i \in Identifiers, s \in Sids : Insert(i, s)

(* SidRegistry::sid and SidRegistry::identifier: Absent stands for their   *)
(* errors.                                                                 *)
SidOf(identifier) ==
  IF identifier \in Identifiers THEN by_identifier[identifier] ELSE Absent
IdentifierOf(sid) == IF sid \in Sids THEN by_sid[sid] ELSE Absent

RegistrySpec == RegistryInit /\ [][InsertAny]_registryVars
-----------------------------------------------------------------------------
(* Correctness.  The type invariant.                                       *)
RegistryTypeOK ==
  /\ by_identifier \in [Identifiers -> Sids \cup {Absent}]
  /\ by_sid \in [Sids -> Identifiers \cup {Absent}]
  /\ inserted \in Seq(Identifiers \X Sids)

(* However identifiers and SIDs are assigned again, the two maps stay      *)
(* inverse to each other: a name that a JSON file may use is one a CBOR    *)
(* file can refer to, and the other way round.                             *)
MapsAgree ==
  \A i \in Identifiers, s \in Sids : by_identifier[i] = s <=> by_sid[s] = i

(* A pair is in force when it was inserted and neither its identifier nor  *)
(* its SID was assigned again later.                                       *)
InForce(i, s) ==
  \E k \in 1..Len(inserted) :
     /\ inserted[k] = <<i, s>>
     /\ \A l \in (k + 1)..Len(inserted) :
           inserted[l][1] # i /\ inserted[l][2] # s

(* Insert "inserts or replaces": the registry answers by the latest        *)
(* assignment, never by a replaced one, and loses none in force.           *)
LatestWins ==
  \A i \in Identifiers, s \in Sids : by_identifier[i] = s <=> InForce(i, s)
=============================================================================
