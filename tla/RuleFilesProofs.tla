-------------------------- MODULE RuleFilesProofs ---------------------------
(***************************************************************************)
(* Theorems about the SID registry and the loaders, for every set of       *)
(* identifiers and SIDs, every sequence of insertions and every file that  *)
(* the writers of RuleFiles write: the registry's maps stay one map and    *)
(* its inverse, what loads is a rule set the compressor and the            *)
(* decompressor can be given, and it is the rule set that was written, in  *)
(* either format, unless a number in a CBOR file has another name by then. *)
(***************************************************************************)
EXTENDS RuleFiles, SchcFieldProofs

-----------------------------------------------------------------------------
(* The registry.                                                           *)

(* The maps keep their domains and ranges.                                 *)
LEMMA TypesStay == RegistryTypeOK /\ [InsertAny]_registryVars => RegistryTypeOK'
<1> SUFFICES ASSUME RegistryTypeOK, [InsertAny]_registryVars
             PROVE  RegistryTypeOK'
  OBVIOUS
<1>1. CASE UNCHANGED registryVars
  BY <1>1 DEF RegistryTypeOK, registryVars
<1>2. CASE InsertAny
  <2>1. PICK i \in Identifiers, s \in Sids : Insert(i, s)
    BY <1>2 DEF InsertAny
  <2>2. by_sid' \in [Sids -> Identifiers \cup {Absent}]
    BY <2>1 DEF RegistryTypeOK, Insert, Without
  <2>3. by_identifier' \in [Identifiers -> Sids \cup {Absent}]
    BY <2>1 DEF RegistryTypeOK, Insert, Without
  <2>4. inserted' \in Seq(Identifiers \X Sids)
    BY <2>1 DEF RegistryTypeOK, Insert
  <2> QED BY <2>2, <2>3, <2>4 DEF RegistryTypeOK
<1> QED BY <1>1, <1>2

(* One insertion keeps the maps inverse: both of its clean-ups are needed, *)
(* the first for the SID the identifier had, the second for the identifier *)
(* the SID had.                                                            *)
LEMMA InsertKeepsMapsAgree ==
  ASSUME RegistryTypeOK, MapsAgree,
         NEW i \in Identifiers, NEW s \in Sids, Insert(i, s)
  PROVE  MapsAgree'
<1> DEFINE unnumbered == Without(by_sid, by_identifier[i])
<1>1. by_sid' = [unnumbered EXCEPT ![s] = i]
  BY DEF Insert
<1>2. by_identifier' = [Without(by_identifier, unnumbered[s]) EXCEPT ![i] = s]
  BY DEF Insert
<1>3. \A t \in Sids : unnumbered[t] = IF by_sid[t] = i THEN Absent ELSE by_sid[t]
  BY AbsentAssumption DEF Without, RegistryTypeOK, MapsAgree
<1>4. unnumbered \in [Sids -> Identifiers \cup {Absent}]
  BY DEF Without, RegistryTypeOK
<1>5. \A j \in Identifiers : j # i =>
        by_identifier'[j] = IF by_identifier[j] = s THEN Absent ELSE by_identifier[j]
  BY <1>2, <1>3, <1>4, AbsentAssumption DEF Without, RegistryTypeOK, MapsAgree
<1>6. by_identifier'[i] = s
  BY <1>2, <1>4 DEF Without, RegistryTypeOK
<1>7. \A t \in Sids : by_sid'[t] = IF t = s THEN i ELSE unnumbered[t]
  BY <1>1, <1>4
<1> HIDE DEF unnumbered
<1>8. SUFFICES ASSUME NEW j \in Identifiers, NEW t \in Sids
               PROVE  by_identifier'[j] = t <=> by_sid'[t] = j
  BY DEF MapsAgree
<1>9. CASE j = i
  BY <1>3, <1>6, <1>7, <1>9, AbsentAssumption
<1>10. CASE j # i
  BY <1>3, <1>5, <1>7, <1>10, AbsentAssumption DEF MapsAgree
<1> QED BY <1>9, <1>10

(* So does any step of the registry.                                       *)
LEMMA MapsStay ==
  RegistryTypeOK /\ MapsAgree /\ [InsertAny]_registryVars => MapsAgree'
<1>1. ASSUME MapsAgree, UNCHANGED registryVars PROVE MapsAgree'
  BY <1>1 DEF MapsAgree, registryVars
<1> QED BY <1>1, InsertKeepsMapsAgree DEF InsertAny

(* What insertion does to the latest assignments, as the history has them. *)
LEMMA InForceAfter ==
  ASSUME RegistryTypeOK, NEW i \in Identifiers, NEW s \in Sids, Insert(i, s),
         NEW j \in Identifiers, NEW t \in Sids
  PROVE  InForce(j, t)' <=> \/ j = i /\ t = s
                            \/ j # i /\ t # s /\ InForce(j, t)
<1> DEFINE n == Len(inserted)
<1>1. /\ n \in Nat
      /\ Len(inserted') = n + 1
      /\ inserted'[n + 1] = <<i, s>>
      /\ \A k \in 1..n : inserted'[k] = inserted[k]
  BY DEF Insert, RegistryTypeOK
<1>2. ASSUME j = i, t = s PROVE InForce(j, t)'
  BY <1>1, <1>2 DEF InForce
<1>3. ASSUME j # i, t # s, InForce(j, t) PROVE InForce(j, t)'
  <2>1. PICK k \in 1..n : /\ inserted[k] = <<j, t>>
                          /\ \A l \in (k + 1)..n :
                                inserted[l][1] # j /\ inserted[l][2] # t
    BY <1>3 DEF InForce
  <2>2. inserted'[k] = <<j, t>>
    BY <1>1, <2>1
  <2>3. \A l \in (k + 1)..(n + 1) : inserted'[l][1] # j /\ inserted'[l][2] # t
    BY <1>1, <1>3, <2>1
  <2> QED BY <1>1, <2>2, <2>3 DEF InForce
<1>4. ASSUME InForce(j, t)' PROVE \/ j = i /\ t = s
                                  \/ j # i /\ t # s /\ InForce(j, t)
  <2>1. PICK k \in 1..(n + 1) :
               /\ inserted'[k] = <<j, t>>
               /\ \A l \in (k + 1)..(n + 1) :
                     inserted'[l][1] # j /\ inserted'[l][2] # t
    BY <1>1, <1>4 DEF InForce
  <2>2. CASE k = n + 1
    BY <1>1, <2>1, <2>2
  <2>3. CASE k # n + 1
    <3>1. k \in 1..n /\ n + 1 \in (k + 1)..(n + 1)
      BY <1>1, <2>3
    <3>2. i # j /\ s # t
      BY <1>1, <2>1, <3>1
    <3>3. \A l \in (k + 1)..n : inserted[l][1] # j /\ inserted[l][2] # t
      BY <1>1, <2>1, <3>1
    <3>4. inserted[k] = <<j, t>>
      BY <1>1, <2>1, <3>1
    <3> QED BY <3>1, <3>2, <3>3, <3>4 DEF InForce
  <2> QED BY <2>2, <2>3
<1> QED BY <1>2, <1>3, <1>4

(* The maps go on answering by the latest assignments.                     *)
LEMMA LatestStays ==
  RegistryTypeOK /\ MapsAgree /\ LatestWins /\ [InsertAny]_registryVars
    => LatestWins'
<1>1. ASSUME LatestWins, UNCHANGED registryVars PROVE LatestWins'
  <2>1. inserted' = inserted /\ by_identifier' = by_identifier
    BY <1>1 DEF registryVars
  <2>2. \A j \in Identifiers, t \in Sids : InForce(j, t)' <=> InForce(j, t)
    BY <2>1 DEF InForce
  <2> QED BY <1>1, <2>1, <2>2 DEF LatestWins
<1>2. ASSUME RegistryTypeOK, MapsAgree, LatestWins,
             NEW i \in Identifiers, NEW s \in Sids, Insert(i, s)
      PROVE  LatestWins'
  <2>1. MapsAgree'
    BY <1>2, InsertKeepsMapsAgree
  <2>2. by_identifier'[i] = s /\ by_sid'[s] = i
    BY <1>2 DEF Insert, Without, RegistryTypeOK
  <2>3. \A j \in Identifiers : j # i =>
          by_identifier'[j] = IF by_identifier[j] = s THEN Absent
                              ELSE by_identifier[j]
    BY <1>2, AbsentAssumption DEF Insert, Without, RegistryTypeOK, MapsAgree
  <2>4. SUFFICES ASSUME NEW j \in Identifiers, NEW t \in Sids
                 PROVE  by_identifier'[j] = t <=> InForce(j, t)'
    BY DEF LatestWins
  <2>5. InForce(j, t)' <=> \/ j = i /\ t = s
                           \/ j # i /\ t # s /\ InForce(j, t)
    BY <1>2, InForceAfter
  <2>6. InForce(j, t) <=> by_identifier[j] = t
    BY <1>2 DEF LatestWins
  <2> QED BY <2>2, <2>3, <2>5, <2>6, AbsentAssumption
<1> QED BY <1>1, <1>2 DEF InsertAny

(* What a registry can be relied on for.                                   *)
RegistryInv == RegistryTypeOK /\ MapsAgree /\ LatestWins

LEMMA RegistryKept == RegistryInv /\ [InsertAny]_registryVars => RegistryInv'
BY TypesStay, MapsStay, LatestStays DEF RegistryInv

LEMMA EmptyRegistry == RegistryInit => RegistryInv
<1>1. RegistryInit => RegistryTypeOK
  BY DEF RegistryInit, RegistryTypeOK
<1>2. RegistryInit => MapsAgree
  BY AbsentAssumption DEF RegistryInit, MapsAgree
<1>3. RegistryInit => LatestWins
  BY AbsentAssumption DEF RegistryInit, LatestWins, InForce
<1> QED BY <1>1, <1>2, <1>3 DEF RegistryInv

LEMMA RegistryInvariant == RegistrySpec => []RegistryInv
BY EmptyRegistry, RegistryKept, PTL DEF RegistrySpec

(* SidRegistry::insert never leaves one map with an entry the other lost.  *)
THEOREM MapsAreInverse == RegistrySpec => []MapsAgree
<1>1. RegistryInv => MapsAgree
  BY DEF RegistryInv
<1> QED BY <1>1, RegistryInvariant, PTL

(* A look-up answers by the latest assignment of both its name and its     *)
(* number.                                                                 *)
THEOREM LookupsAreLatest == RegistrySpec => []LatestWins
<1>1. RegistryInv => LatestWins
  BY DEF RegistryInv
<1> QED BY <1>1, RegistryInvariant, PTL

-----------------------------------------------------------------------------
(* Loading.  What every loader guarantees of one rule.                     *)
SoundRule(rule) ==
  /\ ValidRuleId(rule.id)
  /\ rule.nature \in Natures
  /\ Normalized(rule.entries)
  /\ \A k \in 1..Len(rule.entries) : ValidEntry(rule.entries[k])

(* AllOk succeeds exactly with the values of results that all succeeded.   *)
LEMMA AllOkMeans ==
  ASSUME NEW S, NEW results \in Seq(S), AllOk(results).ok
  PROVE  /\ \A k \in 1..Len(results) : results[k].ok
         /\ AllOk(results).value = [k \in 1..Len(results) |-> results[k].value]
<1> DEFINE bad == {k \in 1..Len(results) : ~results[k].ok}
<1>1. CASE bad = {}
  <2>1. AllOk(results) = Ok([k \in 1..Len(results) |-> results[k].value])
    BY <1>1 DEF AllOk
  <2> QED BY <1>1, <2>1 DEF Ok
<1>2. CASE bad # {}
  <2>1. AllOk(results) = results[Min(bad)]
    BY <1>2 DEF AllOk
  <2>2. bad \subseteq Nat
    OBVIOUS
  <2>3. Min(bad) \in bad
    BY <1>2, <2>2, MinMember
  <2> QED BY <2>1, <2>3
<1> QED BY <1>1, <1>2

(* A sequence written as a function.                                       *)
LEMMA Listed ==
  ASSUME NEW n \in Nat, NEW f, f = [k \in 1..n |-> f[k]]
  PROVE  f \in Seq({f[k] : k \in 1..n}) /\ Len(f) = n
<1>1. f \in [1..n -> {f[k] : k \in 1..n}]
  OBVIOUS
<1> QED BY <1>1

LEMMA RuleSetSound ==
  ASSUME NEW n \in Nat, NEW results, results = [k \in 1..n |-> results[k]],
         \A k \in 1..n : results[k].ok => SoundRule(results[k].value),
         RuleSet(results).ok
  PROVE  Loads(RuleSet(results).value)
<1> DEFINE loaded == AllOk(results)
<1>1. results \in Seq({results[k] : k \in 1..n}) /\ Len(results) = n
  BY Listed
<1>2. loaded.ok /\ RuleSet(results) = loaded /\ ValidRuleIdPrefixes(loaded.value)
  BY Outcomes DEF RuleSet
<1>3. /\ \A k \in 1..n : results[k].ok
      /\ loaded.value = [k \in 1..n |-> results[k].value]
  BY <1>1, <1>2, AllOkMeans
<1> DEFINE found == loaded.value
<1>4. Len(found) = n /\ \A k \in 1..n : found[k] = results[k].value
  <2> DEFINE val(k) == results[k].value
  <2> HIDE DEF val
  <2>1. /\ Len([k \in 1..n |-> val(k)]) = n
        /\ \A j \in 1..n : [k \in 1..n |-> val(k)][j] = val(j)
    OBVIOUS
  <2>2. found = [k \in 1..n |-> val(k)]
    BY <1>3 DEF val
  <2> HIDE DEF found
  <2>3. Len(found) = n /\ \A j \in 1..n : found[j] = val(j)
    BY <2>1, <2>2
  <2> QED BY <2>3 DEF val
<1>5. \A k \in 1..n : SoundRule(found[k])
  BY <1>3, <1>4
<1> HIDE DEF loaded, found
<1>6. Loads(found)
  BY <1>2, <1>4, <1>5 DEF Loads, SoundRule, found
<1> QED BY <1>2, <1>6 DEF found

(* An entry that loads is valid, and has the index that was read for it.   *)
LEMMA EntrySound ==
  ASSUME NEW ref, NEW index, NEW position, NEW dir, NEW length, NEW target,
         NEW matching, NEW action,
         Entry(ref, index, position, dir, length, target, matching, action).ok
  PROVE  /\ index.ok
         /\ Entry(ref, index, position, dir, length, target, matching,
                  action).value.index = index.value
         /\ ValidEntry(Entry(ref, index, position, dir, length, target, matching,
                             action).value)
<1> DEFINE entry == [field |-> ref.value.field, number |-> ref.value.number,
                     index |-> index.value, position |-> position.value,
                     dir |-> dir.value, length |-> length.value,
                     target |-> target.value, matching |-> matching.value,
                     action |-> action.value]
           parts == /\ ref.ok /\ index.ok /\ position.ok /\ dir.ok /\ length.ok
                    /\ target.ok /\ matching.ok /\ action.ok
           result == Entry(ref, index, position, dir, length, target, matching, action)
<1>1. result = IF parts THEN IF ValidEntry(entry) THEN Ok(entry) ELSE Invalid
               ELSE Invalid
  BY DEF Entry
<1>2. ~Invalid.ok /\ Ok(entry).value = entry
  BY DEF Invalid, Err, Ok
<1>3. entry.index = index.value
  OBVIOUS
<1> HIDE DEF entry
<1>4. parts /\ ValidEntry(entry) /\ result = Ok(entry)
  BY <1>1, <1>2
<1> QED BY <1>2, <1>3, <1>4

(* A list of entries that all loaded.                                      *)
LEMMA EntriesSound ==
  ASSUME NEW n \in Nat, NEW results, results = [k \in 1..n |-> results[k]],
         \A k \in 1..n : results[k].ok => ValidEntry(results[k].value),
         AllOk(results).ok
  PROVE  /\ AllOk(results).value = [k \in 1..n |-> results[k].value]
         /\ \A k \in 1..n : results[k].ok /\ ValidEntry(results[k].value)
<1>1. results \in Seq({results[k] : k \in 1..n}) /\ Len(results) = n
  BY Listed
<1> QED BY <1>1, AllOkMeans

-----------------------------------------------------------------------------
(* JSON: the indexes of the entries are their places in the file.          *)
LEMMA JsonRuleSound ==
  ASSUME NEW rule, Len(rule.fields) \in Nat, JsonRule(rule).ok
  PROVE  SoundRule(JsonRule(rule).value)
<1> DEFINE n == Len(rule.fields)
           results == [k \in 1..n |-> JsonEntry(rule.fields[k], k - 1)]
           entries == AllOk(results)
           nature == JsonNature(rule.nature)
           id == [value |-> rule.rule_id, len |-> rule.rule_id_length]
           loaded == [id |-> id, nature |-> nature.value, entries |-> entries.value]
<1>1. JsonRule(rule) =
        CASE ~ValidRuleId(id) -> Err("InvalidRule")
          [] ValidRuleId(id) /\ ~entries.ok -> entries
          [] ValidRuleId(id) /\ entries.ok /\ ~nature.ok -> nature
          [] OTHER -> Ok(loaded)
  BY DEF JsonRule
<1>2. nature.ok => nature.value \in Natures
  BY DEF JsonNature, Natures, Ok, Err
<1>3. \A k \in 1..n : results[k].ok =>
        ValidEntry(results[k].value) /\ results[k].value.index = k - 1
  <2>1. ASSUME NEW k \in 1..n, JsonEntry(rule.fields[k], k - 1).ok
        PROVE  /\ ValidEntry(JsonEntry(rule.fields[k], k - 1).value)
               /\ JsonEntry(rule.fields[k], k - 1).value.index = k - 1
    <3>1. Ok(k - 1).value = k - 1
      BY DEF Ok
    <3> QED BY <2>1, <3>1, EntrySound DEF JsonEntry
  <2> QED BY <2>1
<1>4. results = [k \in 1..n |-> results[k]]
  OBVIOUS
<1> HIDE DEF results
<1>5. entries.ok => /\ entries.value = [k \in 1..n |-> results[k].value]
                    /\ \A k \in 1..n : results[k].ok /\ ValidEntry(results[k].value)
  BY <1>3, <1>4, EntriesSound
<1> HIDE DEF entries, nature, id
<1>6. /\ ValidRuleId(id) /\ entries.ok /\ nature.ok
      /\ JsonRule(rule) = Ok(loaded)
  BY <1>1, Outcomes
<1>7. n \in Nat
  OBVIOUS
<1> DEFINE list == entries.value
<1> HIDE DEF n, list
<1>8. Len(list) = n /\ \A k \in 1..n : list[k] = results[k].value
  BY <1>5, <1>6, <1>7 DEF list
<1>9. \A k \in 1..n : ValidEntry(list[k]) /\ list[k].index = k - 1
  BY <1>3, <1>5, <1>6, <1>8
<1>10. Normalized(list)
  BY <1>7, <1>8, <1>9 DEF Normalized
<1>11. loaded.id = id /\ loaded.nature = nature.value /\ loaded.entries = list
  BY DEF list
<1>12. SoundRule(loaded)
  <2> HIDE DEF loaded
  <2> QED BY <1>2, <1>6, <1>8, <1>9, <1>10, <1>11 DEF SoundRule
<1>13. Ok(loaded).value = loaded
  BY DEF Ok
<1> QED BY <1>6, <1>12, <1>13

-----------------------------------------------------------------------------
(* CBOR: entries are put in the order of their indexes.  The place of an   *)
(* index among n different ones is the number of those up to it; places    *)
(* fill 1..n and are in the order of the indexes.                          *)
UpTo(n, idx, j) == {i \in 1..n : idx[i] <= idx[j]}
PlaceOf(n, idx, j) == Cardinality(UpTo(n, idx, j))

LEMMA Ranking ==
  ASSUME NEW n \in Nat, NEW idx \in [1..n -> Nat],
         \A j, k \in 1..n : j # k => idx[j] # idx[k]
  PROVE  /\ \A k \in 1..n : \E j \in 1..n : PlaceOf(n, idx, j) = k
         /\ \A a, b \in 1..n : PlaceOf(n, idx, a) < PlaceOf(n, idx, b) => idx[a] < idx[b]
<1> DEFINE place == [j \in 1..n |-> PlaceOf(n, idx, j)]
<1> DEFINE upTo(j) == UpTo(n, idx, j)
<1>1. IsFiniteSet(1..n) /\ Cardinality(1..n) = n
  BY FS_Interval
<1>2. \A j \in 1..n : place[j] = Cardinality(upTo(j))
  BY DEF PlaceOf
<1>3. \A j \in 1..n : place[j] = PlaceOf(n, idx, j)
  OBVIOUS
<1>4. \A j \in 1..n : upTo(j) \in SUBSET (1..n) /\ j \in upTo(j)
  BY DEF UpTo
<1>5. ASSUME NEW a \in 1..n, NEW b \in 1..n, idx[a] < idx[b]
      PROVE  upTo(a) \in SUBSET upTo(b) /\ b \notin upTo(a)
  BY <1>5 DEF UpTo
<1>6. place = [j \in 1..n |-> place[j]]
  OBVIOUS
<1> HIDE DEF upTo, place
<1>7. \A j \in 1..n : IsFiniteSet(upTo(j)) /\ place[j] \in 1..n
  <2> TAKE j \in 1..n
  <2>1. IsFiniteSet(upTo(j)) /\ Cardinality(upTo(j)) <= n
    BY <1>1, <1>4, FS_Subset
  <2>2. Cardinality(upTo(j)) \in Nat /\ Cardinality(upTo(j)) # 0
    BY <1>4, <2>1, FS_CardinalityType, FS_EmptySet
  <2> QED BY <1>2, <2>1, <2>2
<1>8. ASSUME NEW a \in 1..n, NEW b \in 1..n, idx[a] < idx[b]
      PROVE  place[a] < place[b]
  <2>1. upTo(a) \in SUBSET upTo(b) /\ b \notin upTo(a) /\ b \in upTo(b)
    BY <1>4, <1>5, <1>8
  <2>2. /\ Cardinality(upTo(a)) <= Cardinality(upTo(b))
        /\ Cardinality(upTo(b)) = Cardinality(upTo(a)) => upTo(b) = upTo(a)
    BY <1>7, <2>1, FS_Subset
  <2>3. place[a] <= place[b] /\ place[a] # place[b]
    BY <1>2, <2>1, <2>2
  <2>4. place[a] \in Nat /\ place[b] \in Nat
    BY <1>7
  <2> DEFINE x == place[a]
             y == place[b]
  <2> HIDE DEF x, y
  <2>5. x < y
    BY <2>3, <2>4 DEF x, y
  <2> QED BY <2>5 DEF x, y
<1>9. ASSUME NEW a \in 1..n, NEW b \in 1..n, a # b PROVE place[a] # place[b]
  <2>1. idx[a] < idx[b] \/ idx[b] < idx[a]
    BY <1>9
  <2>2. place[a] < place[b] \/ place[b] < place[a]
    BY <1>8, <2>1
  <2>3. place[a] \in Nat /\ place[b] \in Nat
    BY <1>7
  <2> QED BY <2>2, <2>3
<1>10. place \in Injection(1..n, 1..n)
  <2>1. place \in [1..n -> 1..n]
    BY <1>7, <1>6
  <2> QED BY <1>9, <2>1 DEF Injection, IsInjective
<1>11. place \in Surjection(1..n, 1..n)
  BY <1>1, <1>10, FS_Injection
<1>12. \A k \in 1..n : \E j \in 1..n : place[j] = k
  BY <1>11 DEF Surjection
<1>13. ASSUME NEW a \in 1..n, NEW b \in 1..n, place[a] < place[b]
       PROVE  idx[a] < idx[b]
  <2>1. CASE idx[b] < idx[a]
    <3>1. place[b] < place[a]
      BY <1>8, <2>1
    <3> QED BY <1>7, <1>13, <3>1
  <2>2. CASE idx[b] = idx[a]
    <3>1. place[b] = place[a]
      BY <2>2
    <3> QED BY <1>7, <1>13, <3>1
  <2> QED BY <2>1, <2>2
<1>14. \A k \in 1..n : \E j \in 1..n : PlaceOf(n, idx, j) = k
  <2> TAKE k \in 1..n
  <2>1. PICK j \in 1..n : place[j] = k
    BY <1>12
  <2>2. PlaceOf(n, idx, j) = k
    BY <1>3, <2>1
  <2> QED BY <2>2
<1>15. ASSUME NEW a \in 1..n, NEW b \in 1..n, PlaceOf(n, idx, a) < PlaceOf(n, idx, b)
       PROVE  idx[a] < idx[b]
  <2>1. place[a] < place[b]
    <3>1. place[a] = PlaceOf(n, idx, a) /\ place[b] = PlaceOf(n, idx, b)
      BY <1>3
    <3> QED BY <1>15, <3>1
  <2> QED BY <1>13, <2>1
<1> QED BY <1>14, <1>15

(* Normalize only puts entries in order: none is lost and none comes from  *)
(* elsewhere.                                                              *)
LEMMA NormalizeSound ==
  ASSUME NEW n \in Nat, NEW entries, entries = [k \in 1..n |-> entries[k]],
         \A k \in 1..n : entries[k].index \in Nat /\ ValidEntry(entries[k]),
         Normalize(entries).ok
  PROVE  /\ Normalized(Normalize(entries).value)
         /\ \A k \in 1..Len(Normalize(entries).value) :
               ValidEntry(Normalize(entries).value[k])
<1> DEFINE idx == [k \in 1..n |-> entries[k].index]
           place(j) == Cardinality({i \in 1..Len(entries) :
                                      entries[i].index <= entries[j].index})
           at(k) == CHOOSE j \in 1..Len(entries) : place(j) = k
           sorted == [k \in 1..Len(entries) |-> entries[at(k)]]
           twice == \E j, k \in 1..Len(entries) :
                       j # k /\ entries[j].index = entries[k].index
           places(j) == PlaceOf(n, idx, j)
<1>1. Len(entries) = n
  BY Listed
<1>2. Normalize(entries) = IF twice THEN Invalid ELSE Ok(sorted)
  BY DEF Normalize
<1>3. ~Invalid.ok /\ Ok(sorted).value = sorted
  BY Outcomes DEF Invalid
<1>4. ~twice /\ Normalize(entries).value = sorted
  BY <1>2, <1>3
<1>5. idx \in [1..n -> Nat] /\ \A j, k \in 1..n : j # k => idx[j] # idx[k]
  BY <1>1, <1>4
<1>6. ASSUME NEW j \in 1..n PROVE places(j) = place(j)
  <2>1. \A i \in 1..n : idx[i] = entries[i].index
    OBVIOUS
  <2>2. UpTo(n, idx, j)
          = {i \in 1..Len(entries) : entries[i].index <= entries[j].index}
    BY <1>1, <2>1 DEF UpTo
  <2> QED BY <2>2 DEF PlaceOf
<1>7. /\ \A k \in 1..n : \E j \in 1..n : places(j) = k
      /\ \A a, b \in 1..n : places(a) < places(b) => idx[a] < idx[b]
  <2> HIDE DEF idx
  <2> QED BY <1>5, Ranking
<1> HIDE DEF place, places
<1>8. \A k \in 1..n : at(k) \in 1..n /\ places(at(k)) = k
  <2> TAKE k \in 1..n
  <2>1. \E j \in 1..Len(entries) : place(j) = k
    BY <1>1, <1>6, <1>7
  <2>2. at(k) \in 1..Len(entries) /\ place(at(k)) = k
    BY <2>1
  <2> QED BY <1>1, <1>6, <2>2
<1> HIDE DEF at
<1>9. Len(sorted) = n /\ \A k \in 1..n : sorted[k] = entries[at(k)]
  BY <1>1
<1> HIDE DEF sorted
<1>10. ASSUME NEW k \in 1..n, NEW l \in 1..n, k < l
       PROVE  sorted[k].index < sorted[l].index
  <2>1. idx[at(k)] < idx[at(l)]
    BY <1>7, <1>8, <1>10
  <2>2. idx[at(k)] = sorted[k].index /\ idx[at(l)] = sorted[l].index
    BY <1>8, <1>9
  <2> QED BY <2>1, <2>2
<1>11. Normalized(sorted)
  BY <1>9, <1>10 DEF Normalized
<1>12. \A k \in 1..n : ValidEntry(sorted[k])
  BY <1>8, <1>9
<1> QED BY <1>4, <1>9, <1>11, <1>12

(* An entry of a CBOR file has an index, and is valid.                     *)
LEMMA CborEntrySound ==
  ASSUME NEW value, CborEntry(value).ok
  PROVE  CborEntry(value).value.index \in Nat /\ ValidEntry(CborEntry(value).value)
<1>1. GetInt(value, 1).ok => GetInt(value, 1).value \in Nat
  BY DEF GetInt, AsInt, Invalid, Ok, Err
<1> QED BY <1>1, EntrySound DEF CborEntry

(* A rule of a CBOR file, given that its entry list is one.                *)
LEMMA CborRuleSound ==
  ASSUME NEW value, HasKey(value, 23) => Len(value.v[23].v) \in Nat,
         CborRule(value).ok
  PROVE  SoundRule(CborRule(value).value)
<1> DEFINE len == GetInt(value, 1)
           id == GetInt(value, 2)
           rule_id == [value |-> id.value, len |-> len.value]
           nature == CborNature(value)
           entries == CborEntries(value, nature.value)
           loaded == [id |-> rule_id, nature |-> nature.value, entries |-> entries.value]
<1>1. CborRule(value) =
        IF ~len.ok \/ ~id.ok THEN Err("InvalidRule")
        ELSE IF ~ValidRuleId(rule_id) THEN Err("InvalidRule")
        ELSE IF ~nature.ok THEN nature
        ELSE IF ~entries.ok THEN entries
        ELSE Ok(loaded)
  BY DEF CborRule
<1>2. nature.ok => nature.value \in Natures
  BY DEF CborNature, NatureOf, Natures, Ok, Err
<1>3. entries.ok =>
        /\ Normalized(entries.value)
        /\ \A k \in 1..Len(entries.value) : ValidEntry(entries.value[k])
  <2> DEFINE n == Len(value.v[23].v)
             results == [k \in 1..n |-> CborEntry(value.v[23].v[k])]
             read == AllOk(results)
  <2>1. entries = CASE ~HasKey(value, 23) ->
                          IF nature.value \in {"no-compression", "fragmentation"}
                          THEN Ok(<<>>) ELSE Err("InvalidRule")
                    [] HasKey(value, 23) /\ value.v[23].type # "array" -> Err("InvalidRule")
                    [] OTHER -> IF read.ok THEN Normalize(read.value) ELSE read
    BY DEF CborEntries
  <2> HIDE DEF nature
  <2>2. CASE ~HasKey(value, 23)
    <3>1. entries.ok => entries = Ok(<<>>)
      BY <2>1, <2>2, Outcomes
    <3>2. Ok(<<>>).value = <<>> /\ Len(<<>>) = 0
      BY DEF Ok
    <3> QED BY <3>1, <3>2 DEF Normalized
  <2>3. CASE HasKey(value, 23)
    <3>1. \A k \in 1..n : results[k].ok =>
            results[k].value.index \in Nat /\ ValidEntry(results[k].value)
      BY CborEntrySound
    <3>2. results = [k \in 1..n |-> results[k]] /\ n \in Nat
      BY <2>3
    <3> HIDE DEF results
    <3>3. read.ok => /\ read.value = [k \in 1..n |-> results[k].value]
                     /\ \A k \in 1..n : results[k].ok
      BY <3>1, <3>2, EntriesSound
    <3> DEFINE list == read.value
    <3>4. read.ok => /\ list = [k \in 1..n |-> list[k]]
                     /\ \A k \in 1..n : list[k].index \in Nat /\ ValidEntry(list[k])
      BY <3>1, <3>3
    <3> HIDE DEF read, list, n
    <3>5. entries.ok => read.ok /\ entries = Normalize(list)
      BY <2>1, <2>3, Outcomes DEF list
    <3> HIDE DEF entries
    <3> QED BY <3>2, <3>4, <3>5, NormalizeSound
  <2> QED BY <2>2, <2>3
<1>4. loaded.id = rule_id /\ loaded.nature = nature.value /\ loaded.entries = entries.value
  OBVIOUS
<1> HIDE DEF nature, entries, rule_id, loaded, len, id
<1>5. /\ ValidRuleId(rule_id) /\ nature.ok /\ entries.ok
      /\ CborRule(value) = Ok(loaded)
  BY <1>1, Outcomes
<1>6. SoundRule(loaded)
  BY <1>2, <1>3, <1>4, <1>5 DEF SoundRule
<1>7. Ok(loaded).value = loaded
  BY Outcomes
<1> QED BY <1>5, <1>6, <1>7

-----------------------------------------------------------------------------
(* The files.                                                              *)

(* The rules of a document have a list of entries each.                    *)
LEMMA EntriesListed ==
  ASSUME NEW rs \in Seq(RuleRecords), NEW k \in 1..Len(rs)
  PROVE  rs[k].entries \in Seq(FieldEntries) /\ Len(rs[k].entries) \in Nat
<1>1. rs[k] \in RuleRecords
  OBVIOUS
<1>2. rs[k].entries \in Seq(FieldEntries)
  <2> DEFINE F == FieldEntries
  <2> HIDE DEF F
  <2>1. \A r \in RuleRecords : r.entries \in Seq(F)
    BY DEF RuleRecords, F
  <2> QED BY <1>1, <2>1 DEF F
<1> QED BY <1>2, LenProperties

(* What a JSON file of the writers loads as.                               *)
LEMMA JsonSound ==
  ASSUME document \in Documents,
         FromJson(Written(document.rules, WrittenJsonRule)).ok
  PROVE  Loads(FromJson(Written(document.rules, WrittenJsonRule)).value)
<1> DEFINE rs == document.rules
           n == Len(rs)
           written == [r \in 1..n |-> WrittenJsonRule(r, rs[r])]
           results == [k \in 1..Len(written) |-> JsonRule(written[k])]
<1>1. rs \in Seq(RuleRecords) /\ n \in Nat
  BY DocumentsAssumption
<1>2. Written(document.rules, WrittenJsonRule) = written
  BY DEF Written
<1>3. Len(written) = n /\ \A k \in 1..n : written[k] = WrittenJsonRule(k, rs[k])
  BY <1>1
<1>4. FromJson(written) = RuleSet(results)
  BY DEF FromJson
<1>5. ASSUME NEW k \in 1..n PROVE Len(written[k].fields) \in Nat
  <2> DEFINE m == Len(rs[k].entries)
             field(i) == WrittenJsonField(rs[k].entries[i])
             fields == [i \in 1..m |-> IF k = 1 /\ i = 1 THEN SpoiltJson(field(i))
                                       ELSE field(i)]
  <2>1. m \in Nat
    BY <1>1, EntriesListed
  <2>2. WrittenJsonRule(k, rs[k]).fields = fields
    BY DEF WrittenJsonRule
  <2>3. Len(fields) = m
    <3> HIDE DEF m
    <3> QED BY <2>1
  <2> QED BY <1>3, <2>1, <2>2, <2>3
<1> HIDE DEF written, rs
<1>6. ASSUME NEW k \in 1..n, results[k].ok PROVE SoundRule(results[k].value)
  BY <1>3, <1>5, <1>6, JsonRuleSound
<1>7. results = [k \in 1..n |-> results[k]]
  BY <1>3
<1> HIDE DEF results, n
<1> QED BY <1>1, <1>2, <1>4, <1>6, <1>7, RuleSetSound

(* A file's order keeps the number of entries.                             *)
LEMMA OrderKeepsLength ==
  ASSUME NEW S, NEW s \in Seq(S)
  PROVE  Len(InFileOrder(s)) = Len(s)
<1>1. CASE s = <<>>
  BY <1>1 DEF InFileOrder
<1>2. CASE s # <<>>
  <2>1. Len(Reverse(s)) = Len(s)
    BY DEF Reverse
  <2>2. Len(Tail(s) \o <<Head(s)>>) = Len(s)
    BY <1>2, HeadTailProperties, ConcatProperties
  <2> QED BY <1>2, <2>1, <2>2 DEF InFileOrder, Shuffled
<1> QED BY <1>1, <1>2

(* What a CBOR file of the writers loads as.                               *)
LEMMA CborSound ==
  ASSUME document \in Documents,
         FromCbor(Written(document.rules, WrittenCborRule)).ok
  PROVE  Loads(FromCbor(Written(document.rules, WrittenCborRule)).value)
<1> DEFINE rs == document.rules
           n == Len(rs)
           written == [r \in 1..n |-> WrittenCborRule(r, rs[r])]
           results == [k \in 1..Len(written) |-> CborRule(written[k])]
<1>1. rs \in Seq(RuleRecords) /\ n \in Nat
  BY DocumentsAssumption
<1>2. Written(document.rules, WrittenCborRule) = written
  BY DEF Written
<1>3. Len(written) = n /\ \A k \in 1..n : written[k] = WrittenCborRule(k, rs[k])
  BY <1>1
<1>4. FromCbor(written) = RuleSet(results)
  BY DEF FromCbor
<1>5. ASSUME NEW k \in 1..n, HasKey(written[k], 23)
      PROVE  Len(written[k].v[23].v) \in Nat
  <2> DEFINE rule == rs[k]
             m == Len(rule.entries)
             entry(i) == WrittenCborEntry(rule.entries[i])
             entries == [i \in 1..m |-> IF k = 1 /\ i = 1 THEN SpoiltCbor(entry(i))
                                         ELSE entry(i)]
  <2>1. m \in Nat
    BY <1>1, EntriesListed
  <2>2. entries = [i \in 1..m |-> entries[i]]
    OBVIOUS
  <2>3. WrittenCborRule(k, rule).v[23] = Array(InFileOrder(entries))
    <3> DEFINE nature == IdentifierFor(NatureOf, rule.nature)
               unnatured == document.terse /\ rule.nature = "compression"
               bare == \/ k = 1 /\ document.defect.what = "no-entries"
                       \/ /\ document.terse /\ entries = <<>>
                          /\ rule.nature \in {"no-compression", "fragmentation"}
               keys == {1, 2} \cup {i \in {3} : ~unnatured} \cup {i \in {23} : ~bare}
               pairs == [i \in keys |-> CASE i = 1 -> IntValue(rule.id.len)
                                          [] i = 2 -> IntValue(rule.id.value)
                                          [] i = 3 -> Sid(nature)
                                          [] i = 23 -> Array(InFileOrder(entries))]
    <3>1. WrittenCborRule(k, rule) = Map(pairs)
      BY DEF WrittenCborRule
    <3>2. Map(pairs).v = pairs
      BY DEF Map
    <3>3. 23 \in DOMAIN pairs
      BY <1>3, <1>5, <3>1, <3>2 DEF HasKey
    <3>4. pairs[23] = Array(InFileOrder(entries))
      BY <3>3
    <3> QED BY <3>1, <3>2, <3>4
  <2> HIDE DEF entries
  <2>4. entries \in Seq({entries[i] : i \in 1..m})
    BY <2>1, <2>2, Listed
  <2>5. Len(InFileOrder(entries)) \in Nat
    BY <2>4, OrderKeepsLength
  <2>6. Array(InFileOrder(entries)).v = InFileOrder(entries)
    BY DEF Array
  <2> QED BY <1>3, <2>3, <2>5, <2>6
<1> HIDE DEF written, rs
<1>6. ASSUME NEW k \in 1..n, results[k].ok PROVE SoundRule(results[k].value)
  BY <1>3, <1>5, <1>6, CborRuleSound
<1>7. results = [k \in 1..n |-> results[k]]
  BY <1>3
<1> HIDE DEF results, n
<1> QED BY <1>1, <1>2, <1>4, <1>6, <1>7, RuleSetSound

(* Whatever was written, in whatever order, against whatever numbering,    *)
(* with or without a defect, by a file in either format only a rule set    *)
(* that the other modules assume can be loaded.                            *)
THEOREM OnlySoundRuleSetsLoad == FilesSpec => []OnlySoundRulesLoad
<1> DEFINE Inv == document \in Documents /\ OnlySoundRulesLoad
<1>1. FilesInit => Inv
  <2>1. ~NotLoaded.ok
    BY Outcomes DEF NotLoaded
  <2> QED BY <2>1 DEF FilesInit, OnlySoundRulesLoad
<1>2. Inv /\ [FilesNext]_fileVars => Inv'
  <2> SUFFICES ASSUME Inv, [FilesNext]_fileVars PROVE Inv'
    OBVIOUS
  <2>1. CASE UNCHANGED fileVars
    BY <2>1 DEF fileVars, OnlySoundRulesLoad
  <2>2. ASSUME NEW pair \in Revised, Revise(pair[1], pair[2]) PROVE Inv'
    BY <2>2 DEF Revise, OnlySoundRulesLoad
  <2>3. CASE LoadJson
    BY <2>3, JsonSound DEF LoadJson, OnlySoundRulesLoad
  <2>4. CASE LoadCbor
    BY <2>4, CborSound DEF LoadCbor, OnlySoundRulesLoad
  <2>5. CASE Write
    BY <2>5 DEF Write, OnlySoundRulesLoad
  <2> QED BY <2>1, <2>2, <2>3, <2>4, <2>5 DEF FilesNext
<1>3. Inv => OnlySoundRulesLoad
  OBVIOUS
<1> QED BY <1>1, <1>2, <1>3, PTL DEF FilesSpec

(* The registry that a node makes of its SID file.                         *)
LEMMA FilesStart == FilesInit => RegistryInv
<1> SUFFICES ASSUME FilesInit PROVE RegistryInv
  OBVIOUS
<1> DEFINE n == Len(SidFile)
           pairs == {SidFile[k] : k \in 1..n}
<1>1. /\ SidFile \in Seq(Identifiers \X Sids) /\ n \in Nat
      /\ \A k, l \in 1..n : k # l => /\ SidFile[k][1] # SidFile[l][1]
                                    /\ SidFile[k][2] # SidFile[l][2]
  BY SidFileAssumption
<1>2. \A k \in 1..n : SidFile[k] \in Identifiers \X Sids
  BY <1>1
<1>3. /\ inserted = SidFile
      /\ by_identifier = [i \in Identifiers |->
           IF \E k \in 1..n : SidFile[k][1] = i
           THEN (CHOOSE p \in pairs : p[1] = i)[2] ELSE Absent]
      /\ by_sid = [s \in Sids |->
           IF \E k \in 1..n : SidFile[k][2] = s
           THEN (CHOOSE p \in pairs : p[2] = s)[1] ELSE Absent]
  BY DEF FilesInit
<1>4. ASSUME NEW k \in 1..n
      PROVE  /\ by_identifier[SidFile[k][1]] = SidFile[k][2]
             /\ by_sid[SidFile[k][2]] = SidFile[k][1]
  <2>1. SidFile[k] \in pairs /\ SidFile[k][1] \in Identifiers /\ SidFile[k][2] \in Sids
    BY <1>2
  <2>2. \A p \in pairs : p[1] = SidFile[k][1] => p = SidFile[k]
    BY <1>1
  <2>3. \A p \in pairs : p[2] = SidFile[k][2] => p = SidFile[k]
    BY <1>1
  <2>4. (CHOOSE p \in pairs : p[1] = SidFile[k][1]) = SidFile[k]
    BY <2>1, <2>2
  <2>5. (CHOOSE p \in pairs : p[2] = SidFile[k][2]) = SidFile[k]
    BY <2>1, <2>3
  <2> QED BY <1>3, <2>1, <2>4, <2>5
<1>5. \A i \in Identifiers :
        (\A k \in 1..n : SidFile[k][1] # i) => by_identifier[i] = Absent
  BY <1>3
<1>6. \A s \in Sids :
        (\A k \in 1..n : SidFile[k][2] # s) => by_sid[s] = Absent
  BY <1>3
<1>7. RegistryTypeOK
  <2>1. \A i \in Identifiers : by_identifier[i] \in Sids \cup {Absent}
    BY <1>2, <1>4, <1>5
  <2>2. \A s \in Sids : by_sid[s] \in Identifiers \cup {Absent}
    BY <1>2, <1>4, <1>6
  <2>3. /\ by_identifier = [i \in Identifiers |-> by_identifier[i]]
        /\ by_sid = [s \in Sids |-> by_sid[s]]
    BY <1>3
  <2> QED BY <1>1, <1>3, <2>1, <2>2, <2>3 DEF RegistryTypeOK
<1>8. ASSUME NEW i \in Identifiers, NEW s \in Sids
      PROVE  /\ by_identifier[i] = s <=> \E k \in 1..n : SidFile[k] = <<i, s>>
             /\ by_sid[s] = i <=> \E k \in 1..n : SidFile[k] = <<i, s>>
  <2>1. \A k \in 1..n : SidFile[k] = <<SidFile[k][1], SidFile[k][2]>>
    BY <1>2
  <2>2. i # Absent /\ s # Absent
    BY AbsentAssumption
  <2>3. ASSUME by_identifier[i] = s PROVE \E k \in 1..n : SidFile[k] = <<i, s>>
    <3>1. PICK k \in 1..n : SidFile[k][1] = i
      BY <1>5, <2>2, <2>3
    <3> QED BY <1>4, <2>1, <2>3, <3>1
  <2>4. ASSUME by_sid[s] = i PROVE \E k \in 1..n : SidFile[k] = <<i, s>>
    <3>1. PICK k \in 1..n : SidFile[k][2] = s
      BY <1>6, <2>2, <2>4
    <3> QED BY <1>4, <2>1, <2>4, <3>1
  <2>5. ASSUME NEW k \in 1..n, SidFile[k] = <<i, s>>
        PROVE  by_identifier[i] = s /\ by_sid[s] = i
    BY <1>4, <2>5
  <2> QED BY <2>3, <2>4, <2>5
<1>9. MapsAgree
  BY <1>8 DEF MapsAgree
<1>10. ASSUME NEW i \in Identifiers, NEW s \in Sids
       PROVE  InForce(i, s) <=> \E k \in 1..n : SidFile[k] = <<i, s>>
  <2>1. ASSUME NEW k \in 1..n, SidFile[k] = <<i, s>>
        PROVE  \A l \in (k + 1)..n : SidFile[l][1] # i /\ SidFile[l][2] # s
    <3> TAKE l \in (k + 1)..n
    <3>1. l \in 1..n /\ l # k
      BY <1>1
    <3>2. SidFile[k][1] = i /\ SidFile[k][2] = s
      BY <2>1
    <3> QED BY <1>1, <3>1, <3>2
  <2> QED BY <1>3, <2>1 DEF InForce
<1>11. LatestWins
  <2>1. \A i \in Identifiers, s \in Sids : by_identifier[i] = s <=> InForce(i, s)
    <3> TAKE i \in Identifiers, s \in Sids
    <3>1. by_identifier[i] = s <=> \E k \in 1..n : SidFile[k] = <<i, s>>
      BY <1>8
    <3>2. InForce(i, s) <=> \E k \in 1..n : SidFile[k] = <<i, s>>
      BY <1>10
    <3> QED BY <3>1, <3>2
  <2> QED BY <2>1 DEF LatestWins
<1> QED BY <1>7, <1>9, <1>11 DEF RegistryInv

(* Loading leaves the registry alone.                                      *)
LEMMA FilesKeep == RegistryInv /\ [FilesNext]_fileVars => RegistryInv'
<1>1. [FilesNext]_fileVars => [InsertAny]_registryVars
  <2> SUFFICES ASSUME [FilesNext]_fileVars PROVE [InsertAny]_registryVars
    OBVIOUS
  <2>1. ASSUME NEW pair \in Revised, Revise(pair[1], pair[2]) PROVE InsertAny
    <3>1. pair[1] \in Identifiers /\ pair[2] \in Sids
      BY RevisedAssumption
    <3> QED BY <2>1, <3>1 DEF Revise, InsertAny
  <2>2. Write \/ LoadJson \/ LoadCbor \/ UNCHANGED fileVars => UNCHANGED registryVars
    BY DEF Write, LoadJson, LoadCbor, fileVars
  <2> QED BY <2>1, <2>2 DEF FilesNext
<1> QED BY <1>1, RegistryKept

(* The registry that a node makes of its SID file is one too, and loading  *)
(* leaves it alone: when a loader looks a name or a number up, it gets     *)
(* what the latest item says of both.                                      *)
THEOREM FilesKeepRegistry == FilesSpec => [](MapsAgree /\ LatestWins)
<1>1. RegistryInv => MapsAgree /\ LatestWins
  BY DEF RegistryInv
<1> QED BY FilesStart, FilesKeep, <1>1, PTL DEF FilesSpec

-----------------------------------------------------------------------------
(* What the writers put in a file comes back from it.                      *)

(* The registry knows the names that were inserted last.                   *)
LEMMA KnownNames ==
  ASSUME RegistryInv
  PROVE  \A i : Known(i) <=> Registered(i)
<1> TAKE i
<1>1. CASE i \notin Identifiers
  <2>1. \A k \in 1..Len(inserted) : inserted[k][1] \in Identifiers
    BY DEF RegistryInv, RegistryTypeOK
  <2> QED BY <1>1, <2>1 DEF Known, Registered, SidOf
<1>2. CASE i \in Identifiers
  <2>1. /\ by_identifier[i] \in Sids \cup {Absent} /\ Absent \notin Sids
        /\ \A s \in Sids : by_identifier[i] = s <=> InForce(i, s)
    BY <1>2, AbsentAssumption DEF RegistryInv, RegistryTypeOK, LatestWins
  <2>2. \A k \in 1..Len(inserted) : inserted[k][2] \in Sids
    BY DEF RegistryInv, RegistryTypeOK
  <2>3. \A s \in Sids : InForce(i, s) => Known(i)
    <3> TAKE s \in Sids
    <3> SUFFICES ASSUME InForce(i, s) PROVE Known(i)
      OBVIOUS
    <3>1. PICK k \in 1..Len(inserted) : inserted[k] = <<i, s>>
      BY DEF InForce
    <3>2. inserted[k][1] = i /\ inserted[k][2] = s
      BY <3>1
    <3> QED BY <3>2 DEF Known
  <2>4. Known(i) => \E s \in Sids : InForce(i, s)
    BY <2>2 DEF Known
  <2>5. Registered(i) <=> by_identifier[i] # Absent
    BY <1>2 DEF Registered, SidOf
  <2> QED BY <2>1, <2>3, <2>4, <2>5
<1> QED BY <1>1, <1>2

(* Every action has one identity.                                          *)
LEMMA OneIdentity ==
  ASSUME NEW action \in Actions
  PROVE  \E i \in DOMAIN ActionOf :
            /\ ActionOf[i] = action
            /\ \A j \in DOMAIN ActionOf : ActionOf[j] = action => j = i
<1>1. /\ ActionOf["cda-not-sent"] = "not-sent"
      /\ ActionOf["cda-value-sent"] = "value-sent"
      /\ ActionOf["cda-mapping-sent"] = "mapping-sent"
      /\ ActionOf["cda-lsb"] = "lsb"
      /\ ActionOf["cda-compute"] = "compute"
      /\ ActionOf["cda-deviid"] = "device-iid"
      /\ ActionOf["cda-appiid"] = "app-iid"
  BY DEF ActionOf
<1>2. DOMAIN ActionOf = {"cda-not-sent", "cda-value-sent", "cda-mapping-sent",
                         "cda-lsb", "cda-compute", "cda-deviid", "cda-appiid"}
  BY DEF ActionOf
<1> QED BY <1>1, <1>2 DEF Actions

LEMMA ActionBack ==
  ASSUME RegistryInv, NEW action \in Actions
  PROVE  JsonAction(action) =
           IF Known(IdentifierFor(ActionOf, action)) THEN Ok(action) ELSE Invalid
<1> DEFINE known == {i \in DOMAIN ActionOf : ActionOf[i] = action}
<1>1. PICK i \in DOMAIN ActionOf :
        /\ ActionOf[i] = action
        /\ \A j \in DOMAIN ActionOf : ActionOf[j] = action => j = i
  BY OneIdentity
<1>2. known = {i}
  BY <1>1
<1>3. (CHOOSE j \in known : TRUE) = i
  BY <1>2
<1>4. IdentifierFor(ActionOf, action) = i
  BY <1>1 DEF IdentifierFor
<1>5. JsonAction(action) = IF Registered(i) THEN Ok(action) ELSE Invalid
  BY <1>2, <1>3 DEF JsonAction, Named
<1> QED BY <1>4, <1>5, KnownNames

LEMMA DirectionBack ==
  ASSUME RegistryInv, NEW dir \in {"bi", "up", "down"}
  PROVE  JsonDirection(dir) =
           IF Known(DirectionName(dir)) THEN Ok(dir) ELSE Invalid
<1>1. JsonDirection(dir) = Named(DirectionName(dir), dir)
  BY DEF JsonDirection, DirectionName
<1> QED BY <1>1, KnownNames DEF Named

LEMMA MatchingBack ==
  ASSUME RegistryInv, NEW mo, mo.kind \in Operators
  PROVE  JsonMatching(mo) =
           IF Known(MatchingName(mo.kind)) THEN Ok(mo) ELSE Invalid
<1>1. JsonMatching(mo) = Named(MatchingName(mo.kind), mo)
  BY DEF JsonMatching, MatchingName, Operators
<1> QED BY <1>1, KnownNames DEF Named

(* A name that stands for an option says which.                            *)
LEMMA RefBack ==
  ASSUME RegistryInv, NEW entry, Writable(entry)
  PROVE  LET ref == JsonFieldRef(WrittenJsonField(entry))
             knows ==
               /\ entry.field \in FieldNames \cup {Option}
               /\ \/ entry.field = Option /\ ~IsNamed(entry)
                  \/ Known(IF IsNamed(entry) THEN OptionName(entry) ELSE entry.field)
         IN ref = IF knows THEN Ok([field |-> entry.field, number |-> entry.number])
                  ELSE Invalid
<1> DEFINE field == WrittenJsonField(entry)
           name == IF IsNamed(entry) THEN OptionName(entry) ELSE entry.field
<1>1. field.field = name /\ field.number = entry.number
  BY DEF WrittenJsonField
<1> HIDE DEF field
<1>2. JsonFieldRef(field) =
        IF name = Option THEN Ok([field |-> Option, number |-> entry.number])
        ELSE IF Known(name) THEN FieldRefOf(name) ELSE Invalid
  BY <1>1, KnownNames DEF JsonFieldRef
<1>3. CASE IsNamed(entry)
  <2>1. /\ entry.field = Option /\ entry.number \in {3, 11}
        /\ name = OptionName(entry) /\ name # Option
        /\ FieldRefOf(name) = Ok([field |-> Option, number |-> entry.number])
    BY <1>3 DEF IsNamed, OptionName, FieldRefOf, FieldNames, Option, Marker, Payload
  <2> QED BY <1>2, <1>3, <2>1 DEF field
<1>4. CASE ~IsNamed(entry) /\ entry.field = Option
  BY <1>2, <1>4 DEF field
<1>5. CASE ~IsNamed(entry) /\ entry.field # Option
  <2>1. entry.number = 0 /\ name = entry.field
    BY <1>5 DEF Writable
  <2>2. FieldRefOf(name) =
          IF name \in FieldNames THEN Ok([field |-> name, number |-> 0]) ELSE Invalid
    BY <2>1 DEF FieldRefOf, Writable
  <2> QED BY <1>2, <1>5, <2>1, <2>2 DEF field
<1> QED BY <1>3, <1>4, <1>5

(* The two ways of giving a length, and a position.                        *)
LEMMA LengthBack ==
  ASSUME NEW entry \in FieldEntries
  PROVE  /\ JsonLength(WrittenJsonField(entry)) = Ok(entry.length)
         /\ LET given == WrittenJsonField(entry).field_position
            IN (IF given = Absent THEN 1 ELSE given) = entry.position
<1> DEFINE short == document.terse /\ entry.length.kind = "fixed"
           field == WrittenJsonField(entry)
<1>1. /\ entry.length \in [kind: LengthKinds, n: Nat]
      /\ entry.position \in Nat
  BY DEF FieldEntries
<1>2. entry.length # Absent /\ entry.length.n # Absent /\ entry.position # Absent
  BY <1>1, KeysAssumption
<1>3. /\ field.length = (IF short THEN Absent ELSE entry.length)
      /\ field.length_bits = (IF short THEN entry.length.n ELSE Absent)
      /\ field.field_position = (IF document.terse /\ entry.position = 1 THEN Absent
                                 ELSE entry.position)
  BY DEF WrittenJsonField
<1>4. short => [kind |-> "fixed", n |-> entry.length.n] = entry.length
  BY <1>1
<1> HIDE DEF field, short
<1>5. JsonLength(field) = Ok(entry.length)
  BY <1>2, <1>3, <1>4 DEF JsonLength
<1>6. (IF field.field_position = Absent THEN 1 ELSE field.field_position)
        = entry.position
  BY <1>2, <1>3
<1> QED BY <1>5, <1>6 DEF field

-----------------------------------------------------------------------------
(* Hex digits.                                                             *)
LEMMA FourPowers == 2^(4 - 1) = 8 /\ 2^(4 - 2) = 4 /\ 2^(4 - 3) = 2 /\ 2^(4 - 4) = 1
OBVIOUS

LEMMA DigitBack ==
  ASSUME NEW s \in Bits, Len(s) = 4
  PROVE  Number(s) \in 0..15 /\ BitsOf(Number(s), 4) = s
<1> DEFINE x == Number(s)
<1>1. s[1] \in {0, 1} /\ s[2] \in {0, 1} /\ s[3] \in {0, 1} /\ s[4] \in {0, 1}
  <2>1. s \in Seq(Bit)
    BY DEF Bits
  <2>2. \A i \in 1..Len(s) : s[i] \in Bit
    BY <2>1, ElementOfSeq
  <2>3. 1 \in 1..Len(s) /\ 2 \in 1..Len(s) /\ 3 \in 1..Len(s) /\ 4 \in 1..Len(s)
    OBVIOUS
  <2> QED BY <2>2, <2>3 DEF Bit
<1>2. x = 8 * s[1] + 4 * s[2] + 2 * s[3] + s[4]
  <2>1. PICK f : Recurs(f, s, 4) /\ Number(s) = f[4]
    BY NumberByDigits
  <2>2. f[0] = 0 /\ \A i \in 1..4 : f[i] = 2 * f[i - 1] + s[i]
    BY <2>1 DEF Recurs
  <2>3. f[1] = 2 * f[0] + s[1] /\ f[2] = 2 * f[1] + s[2]
    BY <2>2
  <2>4. f[3] = 2 * f[2] + s[3] /\ f[4] = 2 * f[3] + s[4]
    BY <2>2
  <2> QED BY <1>1, <2>1, <2>2, <2>3, <2>4
<1> HIDE DEF x
<1>3. x \in 0..15
  BY <1>1, <1>2
<1>4. 2^(4 - 1) = 8 /\ 2^(4 - 2) = 4 /\ 2^(4 - 3) = 2 /\ 2^(4 - 4) = 1
  BY FourPowers
<1>5. /\ (x \div 8) % 2 = s[1] /\ (x \div 4) % 2 = s[2]
      /\ (x \div 2) % 2 = s[3] /\ (x \div 1) % 2 = s[4]
  <2> DEFINE a == s[1]
             b == s[2]
             c == s[3]
             d == s[4]
  <2> HIDE DEF a, b, c, d
  <2>1. /\ a \in {0, 1} /\ b \in {0, 1} /\ c \in {0, 1} /\ d \in {0, 1}
        /\ x = 8 * a + 4 * b + 2 * c + d
    BY <1>1, <1>2 DEF a, b, c, d
  <2>2. (x \div 8) % 2 = a
    BY <2>1
  <2>3. (x \div 4) % 2 = b
    BY <2>1
  <2>4. (x \div 2) % 2 = c
    BY <2>1
  <2>5. (x \div 1) % 2 = d
    BY <2>1
  <2> QED BY <2>2, <2>3, <2>4, <2>5 DEF a, b, c, d
<1>6. /\ BitsOf(x, 4) \in Bits /\ Len(BitsOf(x, 4)) = 4
      /\ \A i \in 1..4 : BitsOf(x, 4)[i] = (x \div 2^(4 - i)) % 2
  <2>1. x \in Nat /\ 4 \in Nat
    BY <1>3
  <2> QED BY <2>1, BitsOfType
<1>7. \A i \in 1..4 : BitsOf(x, 4)[i] = s[i]
  BY <1>4, <1>5, <1>6
<1>8. BitsOf(x, 4) = s
  BY <1>6, <1>7, SameBits
<1> QED BY <1>3, <1>8 DEF x

(* Digits put together make what they were taken from.                     *)
LEMMA DigitsJoined ==
  ASSUME NEW v \in Bits, NEW n \in Nat, Len(v) = 4 * n, NEW parts,
         parts = [k \in 1..n |-> Slice(v, 4 * (k - 1), 4)]
  PROVE  FlattenSeq(parts) = v
<1>1. Len(parts) = n /\ DOMAIN parts = 1..n
  OBVIOUS
<1>2. CASE n = 0
  <2>1. parts = <<>> /\ v = <<>>
    <3>1. parts = <<>>
      BY <1>2
    <3>2. Len(v) = Len(<<>>) /\ <<>> \in Bits
      BY <1>2 DEF Bits
    <3>3. v = <<>>
      BY <1>2, <3>2, SameBits
    <3> QED BY <3>1, <3>3
  <2> QED BY <1>1, <1>2, <2>1 DEF FlattenSeq
<1>3. CASE n # 0
  <2> DEFINE Def(g) == g = [i \in 1..n |-> IF i = 1 THEN parts[i]
                                           ELSE g[i - 1] \o parts[i]]
             h == CHOOSE g : Def(g)
             f == [i \in 1..n |-> SubSeq(v, 1, 4 * i)]
  <2>1. ASSUME NEW i \in 1..n
        PROVE  /\ SubSeq(v, 1, 4 * i) \in Bits /\ Len(SubSeq(v, 1, 4 * i)) = 4 * i
               /\ \A k \in 1..(4 * i) : SubSeq(v, 1, 4 * i)[k] = v[k]
               /\ parts[i] \in Bits /\ Len(parts[i]) = 4
               /\ \A k \in 1..4 : parts[i][k] = v[4 * (i - 1) + k]
    <3>1. 4 * i \in Nat /\ 4 * i <= Len(v) /\ 4 * (i - 1) \in Nat
          /\ 4 * (i - 1) + 4 <= Len(v)
      OBVIOUS
    <3>2. parts[i] = Slice(v, 4 * (i - 1), 4)
      OBVIOUS
    <3>3. /\ SubSeq(v, 1, 4 * i) \in Bits /\ Len(SubSeq(v, 1, 4 * i)) = 4 * i
          /\ \A k \in 1..(4 * i) : SubSeq(v, 1, 4 * i)[k] = v[k]
      BY <3>1, PrefixType
    <3>4. /\ Slice(v, 4 * (i - 1), 4) \in Bits
          /\ Len(Slice(v, 4 * (i - 1), 4)) = 4
          /\ \A k \in 1..4 : Slice(v, 4 * (i - 1), 4)[k] = v[4 * (i - 1) + k]
      <4> DEFINE m == 4 * (i - 1)
      <4> HIDE DEF m
      <4>1. m \in Nat /\ 4 \in Nat /\ m + 4 <= Len(v)
        BY <3>1 DEF m
      <4>2. /\ Slice(v, m, 4) \in Bits /\ Len(Slice(v, m, 4)) = 4
            /\ \A k \in 1..4 : Slice(v, m, 4)[k] = v[m + k]
        BY <4>1, PartType
      <4> QED BY <4>2 DEF m
    <3> QED BY <3>2, <3>3, <3>4
  <2>2. f[1] = parts[1]
    <3>1. 1 \in 1..n
      BY <1>3
    <3>2. /\ f[1] = SubSeq(v, 1, 4 * 1)
          /\ SubSeq(v, 1, 4 * 1) \in Bits /\ Len(SubSeq(v, 1, 4 * 1)) = 4
          /\ \A k \in 1..4 : SubSeq(v, 1, 4 * 1)[k] = v[k]
      BY <2>1, <3>1
    <3>3. /\ parts[1] \in Bits /\ Len(parts[1]) = 4
          /\ \A k \in 1..4 : parts[1][k] = v[k]
      <4>1. /\ parts[1] \in Bits /\ Len(parts[1]) = 4
            /\ \A k \in 1..4 : parts[1][k] = v[4 * (1 - 1) + k]
        BY <2>1, <3>1
      <4>2. \A k \in 1..4 : 4 * (1 - 1) + k = k
        OBVIOUS
      <4> QED BY <4>1, <4>2
    <3> DEFINE a == SubSeq(v, 1, 4 * 1)
    <3> HIDE DEF a
    <3>4. a \in Bits /\ Len(a) = Len(parts[1]) /\ \A k \in 1..Len(a) : a[k] = parts[1][k]
      BY <3>2, <3>3 DEF a
    <3>5. a = parts[1]
      BY <3>3, <3>4, SameBits
    <3> QED BY <3>2, <3>5 DEF a
  <2>3. ASSUME NEW i \in 1..n, i # 1 PROVE f[i] = f[i - 1] \o parts[i]
    <3> DEFINE a == SubSeq(v, 1, 4 * (i - 1))
               b == parts[i]
               c == SubSeq(v, 1, 4 * i)
    <3>1. i - 1 \in 1..n /\ f[i] = c /\ f[i - 1] = a
      BY <2>3
    <3>2. /\ a \in Bits /\ Len(a) = 4 * (i - 1)
          /\ \A k \in 1..(4 * (i - 1)) : a[k] = v[k]
      BY <2>1, <3>1
    <3>3. /\ b \in Bits /\ Len(b) = 4
          /\ \A k \in 1..4 : b[k] = v[4 * (i - 1) + k]
          /\ c \in Bits /\ Len(c) = 4 * i
          /\ \A k \in 1..(4 * i) : c[k] = v[k]
      BY <2>1
    <3> HIDE DEF a, b, c
    <3>4. /\ a \o b \in Bits /\ Len(a \o b) = Len(a) + Len(b)
          /\ \A k \in 1..Len(a) : (a \o b)[k] = a[k]
          /\ \A k \in 1..Len(b) : (a \o b)[Len(a) + k] = b[k]
      BY <3>2, <3>3, ConcatBits
    <3>5. Len(a \o b) = Len(c)
      BY <3>2, <3>3, <3>4
    <3>6. ASSUME NEW k \in 1..Len(a \o b) PROVE (a \o b)[k] = c[k]
      <4>1. CASE k \in 1..Len(a)
        BY <3>2, <3>3, <3>4, <4>1
      <4>2. CASE k \notin 1..Len(a)
        <5>1. /\ k - Len(a) \in 1..4 /\ Len(a) + (k - Len(a)) = k
              /\ 4 * (i - 1) + (k - Len(a)) = k /\ k \in 1..(4 * i)
          BY <3>2, <3>3, <3>4, <4>2
        <5> DEFINE j == k - Len(a)
        <5>2. (a \o b)[k] = b[j] /\ b[j] = v[k] /\ c[k] = v[k]
          BY <3>3, <3>4, <5>1
        <5> QED BY <5>2
      <4> QED BY <4>1, <4>2
    <3>7. a \o b = c
      BY <3>3, <3>4, <3>5, <3>6, SameBits
    <3> QED BY <3>1, <3>7 DEF b
  <2>4. Def(f)
    <3> DEFINE g == [i \in 1..n |-> IF i = 1 THEN parts[i] ELSE f[i - 1] \o parts[i]]
    <3>1. \A i \in 1..n : f[i] = g[i]
      <4> TAKE i \in 1..n
      <4> HIDE DEF f
      <4> QED BY <2>2, <2>3
    <3>2. f = [i \in 1..n |-> f[i]] /\ g = [i \in 1..n |-> g[i]]
      OBVIOUS
    <3> HIDE DEF f, g
    <3>3. f = g
      BY <3>1, <3>2
    <3> QED BY <3>3 DEF g
  <2> HIDE DEF f
  <2>5. Def(h)
    BY <2>4
  <2> HIDE DEF h
  <2>6. \A i \in 1..n : h[i] = f[i]
    <3> DEFINE S == {i \in Nat : i + 1 <= n => h[i + 1] = f[i + 1]}
    <3>1. 0 \in S
      <4>1. 1 \in 1..n
        BY <1>3
      <4> QED BY <2>4, <2>5, <4>1
    <3>2. ASSUME NEW i \in Nat, i \in S PROVE i + 1 \in S
      <4> SUFFICES ASSUME (i + 1) + 1 <= n PROVE h[(i + 1) + 1] = f[(i + 1) + 1]
        OBVIOUS
      <4> DEFINE j == (i + 1) + 1
      <4>1. j \in 1..n /\ j # 1 /\ j - 1 = i + 1 /\ i + 1 <= n
        OBVIOUS
      <4>2. h[i + 1] = f[i + 1]
        BY <3>2, <4>1
      <4> HIDE DEF j
      <4>3. h[j] = h[j - 1] \o parts[j]
        BY <2>5, <4>1
      <4>4. f[j] = f[j - 1] \o parts[j]
        BY <2>4, <4>1
      <4>5. h[j] = f[j]
        BY <4>1, <4>2, <4>3, <4>4
      <4> QED BY <4>5 DEF j
    <3> HIDE DEF S
    <3>3. Nat \subseteq S
      BY <3>1, <3>2, SetInduction
    <3> TAKE i \in 1..n
    <3>4. i - 1 \in S /\ (i - 1) + 1 = i /\ i <= n
      BY <3>3
    <3> QED BY <3>4 DEF S
  <2>7. FlattenSeq(parts) = h[n]
    BY <1>1, <1>3 DEF FlattenSeq, h
  <2>8. h[n] = SubSeq(v, 1, 4 * n)
    BY <1>3, <2>6 DEF f
  <2>9. SubSeq(v, 1, Len(v)) = v
    <3>1. Len(v) \in Nat
      BY DEF Bits
    <3>2. /\ SubSeq(v, 1, Len(v)) \in Bits
          /\ Len(SubSeq(v, 1, Len(v))) = Len(v)
          /\ \A i \in 1..Len(v) : SubSeq(v, 1, Len(v))[i] = v[i]
      BY <3>1, PrefixType
    <3> QED BY <3>2, SameBits
  <2> QED BY <2>7, <2>8, <2>9
<1> QED BY <1>2, <1>3

LEMMA HexBack ==
  ASSUME NEW v \in Bits, Len(v) % 8 = 0
  PROVE  DecodeHex(Hex(v)) = Ok(v)
<1> DEFINE n == Len(v) \div 4
           digits == Hex(v)
<1>1. n \in Nat /\ Len(v) = 4 * n /\ n % 2 = 0
  <2>1. Len(v) \in Nat
    BY DEF Bits
  <2> DEFINE m == Len(v)
  <2> HIDE DEF m
  <2>2. m \in Nat /\ m % 8 = 0
    BY <2>1 DEF m
  <2>3. (m \div 4) \in Nat /\ m = 4 * (m \div 4) /\ (m \div 4) % 2 = 0
    BY <2>2
  <2> QED BY <2>3 DEF m
<1>2. digits = [k \in 1..n |-> Number(Slice(v, 4 * (k - 1), 4))]
  BY DEF Hex
<1> HIDE DEF n, digits
<1>3. Len(digits) = n /\ \A k \in 1..n : digits[k] = Number(Slice(v, 4 * (k - 1), 4))
  BY <1>1, <1>2
<1>4. ASSUME NEW k \in 1..n
      PROVE  digits[k] \in 0..15 /\ BitsOf(digits[k], 4) = Slice(v, 4 * (k - 1), 4)
  <2>1. 4 * (k - 1) \in Nat /\ 4 * (k - 1) + 4 <= Len(v)
    BY <1>1
  <2>2. Slice(v, 4 * (k - 1), 4) \in Bits /\ Len(Slice(v, 4 * (k - 1), 4)) = 4
    <3> DEFINE m == 4 * (k - 1)
    <3> HIDE DEF m
    <3>1. m \in Nat /\ 4 \in Nat /\ m + 4 <= Len(v)
      BY <2>1 DEF m
    <3>2. Slice(v, m, 4) \in Bits /\ Len(Slice(v, m, 4)) = 4
      BY <3>1, PartType
    <3> QED BY <3>2 DEF m
  <2> QED BY <1>3, <2>2, DigitBack
<1> DEFINE parts == [k \in 1..Len(digits) |-> BitsOf(digits[k], 4)]
<1>5. parts = [k \in 1..n |-> Slice(v, 4 * (k - 1), 4)]
  BY <1>3, <1>4
<1>6. DecodeHex(digits) = Ok(FlattenSeq(parts))
  BY <1>1, <1>3, <1>4 DEF DecodeHex
<1> HIDE DEF parts
<1>7. FlattenSeq(parts) = v
  BY <1>1, <1>5, DigitsJoined
<1> QED BY <1>6, <1>7 DEF digits

(* A list of values that could all be read.                                *)
LEMMA AllOkGiven ==
  ASSUME NEW n \in Nat, NEW values, Len(values) = n, NEW results,
         results = [k \in 1..n |-> Ok(values[k])]
  PROVE  AllOk(results) = Ok([k \in 1..n |-> values[k]])
<1>1. Len(results) = n /\ \A k \in 1..n : results[k] = Ok(values[k])
  BY Listed
<1>2. \A k \in 1..n : results[k].ok /\ results[k].value = values[k]
  BY <1>1, Outcomes
<1>3. {k \in 1..Len(results) : ~results[k].ok} = {}
  BY <1>1, <1>2
<1>4. [k \in 1..Len(results) |-> results[k].value] = [k \in 1..n |-> values[k]]
  BY <1>1, <1>2
<1> QED BY <1>3, <1>4 DEF AllOk

(* A list of which one could not be read is refused.                       *)
LEMMA OneRefused ==
  ASSUME NEW n \in Nat, NEW results, results = [k \in 1..n |-> results[k]],
         NEW k \in 1..n, ~results[k].ok
  PROVE  ~AllOk(results).ok
<1>1. results \in Seq({results[j] : j \in 1..n}) /\ Len(results) = n
  BY Listed
<1> QED BY <1>1, AllOkMeans

LEMMA TargetBack ==
  ASSUME NEW entry \in FieldEntries, Writable(entry)
  PROVE  JsonTarget(WrittenJsonField(entry).target) = Ok(entry.target)
<1> DEFINE kind == entry.target.kind
           values == entry.target.values
           n == Len(values)
           digits == [k \in 1..n |-> Hex(values[k])]
           target == WrittenJsonField(entry).target
           results == [k \in 1..Len(target.values) |-> DecodeHex(target.values[k])]
           decoded == AllOk(results)
<1>1. /\ kind \in {"none", "bytes", "mapping"} /\ values \in Seq(Bits)
      /\ entry.target = [kind |-> kind, values |-> values]
      /\ kind = "bytes" => n = 1
  BY DEF FieldEntries
<1>2. n \in Nat /\ values = [k \in 1..n |-> values[k]] /\ \A k \in 1..n : values[k] \in Bits
  BY <1>1
<1>3. /\ target.values = digits
      /\ target.kind = CASE kind = "none" -> "null" [] kind = "bytes" -> "string"
                         [] kind = "mapping" -> "array"
  BY DEF WrittenJsonField
<1> HIDE DEF n, target
<1>4. Len(digits) = n /\ \A k \in 1..n : digits[k] = Hex(values[k])
  BY <1>2
<1>5. \A k \in 1..n : DecodeHex(digits[k]) = Ok(values[k])
  BY <1>2, <1>4, HexBack DEF Writable, n
<1>6. results = [k \in 1..n |-> Ok(values[k])]
  BY <1>3, <1>4, <1>5
<1>7. Len(values) = n
  BY DEF n
<1>10. JsonTarget(target) =
         CASE target.kind = "null" -> Ok([kind |-> "none", values |-> <<>>])
           [] target.kind = "string" /\ decoded.ok ->
                Ok([kind |-> "bytes", values |-> decoded.value])
           [] target.kind = "array" /\ decoded.ok ->
                Ok([kind |-> "mapping", values |-> decoded.value])
           [] OTHER -> Invalid
  BY DEF JsonTarget
<1> HIDE DEF results
<1>8. decoded = Ok([k \in 1..n |-> values[k]])
  BY <1>2, <1>6, <1>7, AllOkGiven
<1>9. decoded.ok /\ decoded.value = values
  BY <1>2, <1>8, Outcomes
<1> HIDE DEF decoded, digits, values, kind
<1>11. kind = "none" => values = <<>>
  BY DEF Writable, kind, values
<1>12. CASE kind = "none"
  BY <1>1, <1>3, <1>10, <1>11, <1>12 DEF target
<1>13. CASE kind = "bytes"
  BY <1>1, <1>3, <1>9, <1>10, <1>13 DEF target
<1>14. CASE kind = "mapping"
  BY <1>1, <1>3, <1>9, <1>10, <1>14 DEF target
<1> QED BY <1>1, <1>12, <1>13, <1>14

(* An entry comes back with the index of its place, or it is refused.      *)
LEMMA EntryBack ==
  ASSUME RegistryInv, NEW entry \in FieldEntries, Writable(entry), NEW i \in Nat
  PROVE  JsonEntry(WrittenJsonField(entry), i) =
           IF JsonKnows(entry) /\ ValidEntry(entry)
           THEN Ok([entry EXCEPT !.index = i]) ELSE Invalid
<1> DEFINE field == WrittenJsonField(entry)
           ref == JsonFieldRef(field)
           given == Ok(IF field.field_position = Absent THEN 1
                       ELSE field.field_position)
           names ==
             /\ entry.field \in FieldNames \cup {Option}
             /\ \/ entry.field = Option /\ ~IsNamed(entry)
                \/ Known(IF IsNamed(entry) THEN OptionName(entry) ELSE entry.field)
           counted == [entry EXCEPT !.index = i]
           parts(r, p, d, l, t, m, a) ==
             /\ r.ok /\ Ok(i).ok /\ p.ok /\ d.ok /\ l.ok /\ t.ok /\ m.ok /\ a.ok
           made(r, p, d, l, t, m, a) ==
             [field |-> r.value.field, number |-> r.value.number,
              index |-> Ok(i).value, position |-> p.value, dir |-> d.value,
              length |-> l.value, target |-> t.value, matching |-> m.value,
              action |-> a.value]
<1>1. /\ entry.action \in Actions /\ entry.dir \in {"bi", "up", "down"}
      /\ entry.matching.kind \in Operators
      /\ entry = [field |-> entry.field, number |-> entry.number,
                  index |-> entry.index, position |-> entry.position,
                  dir |-> entry.dir, length |-> entry.length,
                  target |-> entry.target, matching |-> entry.matching,
                  action |-> entry.action]
  BY DEF FieldEntries
<1>2. /\ field.direction = entry.dir /\ field.mo = entry.matching
      /\ field.cda = entry.action
  BY DEF WrittenJsonField
<1>3. ref = IF names THEN Ok([field |-> entry.field, number |-> entry.number])
            ELSE Invalid
  BY RefBack
<1>4. /\ given = Ok(entry.position)
      /\ JsonLength(field) = Ok(entry.length)
      /\ JsonTarget(field.target) = Ok(entry.target)
  BY LengthBack, TargetBack
<1>5. /\ JsonDirection(field.direction)
           = IF Known(DirectionName(entry.dir)) THEN Ok(entry.dir) ELSE Invalid
      /\ JsonMatching(field.mo)
           = IF Known(MatchingName(entry.matching.kind)) THEN Ok(entry.matching)
             ELSE Invalid
      /\ JsonAction(field.cda)
           = IF Known(IdentifierFor(ActionOf, entry.action)) THEN Ok(entry.action)
             ELSE Invalid
  BY <1>1, <1>2, DirectionBack, MatchingBack, ActionBack
<1> DEFINE dir == JsonDirection(field.direction)
           length == JsonLength(field)
           target == JsonTarget(field.target)
           matching == JsonMatching(field.mo)
           action == JsonAction(field.cda)
<1>6. JsonEntry(field, i) =
        IF parts(ref, given, dir, length, target, matching, action)
        THEN IF ValidEntry(made(ref, given, dir, length, target, matching, action))
             THEN Ok(made(ref, given, dir, length, target, matching, action))
             ELSE Invalid
        ELSE Invalid
  BY DEF JsonEntry, Entry
<1>7. ~Invalid.ok /\ \A v : Ok(v).ok /\ Ok(v).value = v
  BY Outcomes DEF Invalid
<1> HIDE DEF ref, given, dir, length, target, matching, action
<1>8. parts(ref, given, dir, length, target, matching, action) <=> JsonKnows(entry)
  <2> HIDE DEF field
  <2>1. ref.ok <=> names
    BY <1>3, <1>7
  <2>2. given.ok /\ length.ok /\ target.ok
    BY <1>4, <1>7 DEF given, length, target
  <2>3. /\ dir.ok <=> Known(DirectionName(entry.dir))
        /\ matching.ok <=> Known(MatchingName(entry.matching.kind))
        /\ action.ok <=> Known(IdentifierFor(ActionOf, entry.action))
    BY <1>5, <1>7 DEF dir, matching, action
  <2>4. JsonKnows(entry) <=>
          /\ names
          /\ Known(DirectionName(entry.dir))
          /\ Known(MatchingName(entry.matching.kind))
          /\ Known(IdentifierFor(ActionOf, entry.action))
    BY DEF JsonKnows
  <2> QED BY <1>7, <2>1, <2>2, <2>3, <2>4
<1>9. JsonKnows(entry) =>
        made(ref, given, dir, length, target, matching, action) = counted
  <2> SUFFICES ASSUME JsonKnows(entry)
               PROVE  made(ref, given, dir, length, target, matching, action) = counted
    OBVIOUS
  <2>1. /\ names
        /\ Known(DirectionName(entry.dir))
        /\ Known(MatchingName(entry.matching.kind))
        /\ Known(IdentifierFor(ActionOf, entry.action))
    BY DEF JsonKnows
  <2>2. ref.value = [field |-> entry.field, number |-> entry.number]
    BY <1>3, <1>7, <2>1
  <2>3. ref.value.field = entry.field /\ ref.value.number = entry.number
    BY <2>2
  <2>4. /\ given.value = entry.position /\ length.value = entry.length
        /\ target.value = entry.target
    BY <1>4, <1>7 DEF length, target
  <2>5. /\ dir.value = entry.dir /\ matching.value = entry.matching
        /\ action.value = entry.action
    BY <1>5, <1>7, <2>1 DEF dir, matching, action
  <2>6. counted = [field |-> entry.field, number |-> entry.number,
                   index |-> i, position |-> entry.position,
                   dir |-> entry.dir, length |-> entry.length,
                   target |-> entry.target, matching |-> entry.matching,
                   action |-> entry.action]
    BY <1>1
  <2> QED BY <1>7, <2>3, <2>4, <2>5, <2>6
<1>10. ValidEntry(counted) <=> ValidEntry(entry)
  <2>1. /\ counted.field = entry.field /\ counted.length = entry.length
        /\ counted.target = entry.target /\ counted.matching = entry.matching
        /\ counted.action = entry.action
    BY <1>1
  <2> HIDE DEF counted
  <2> QED BY <2>1 DEF ValidEntry, PayloadLengthSupported
<1> HIDE DEF parts, made, counted, names
<1>11. CASE JsonKnows(entry)
  BY <1>6, <1>8, <1>9, <1>10, <1>11 DEF counted
<1>12. CASE ~JsonKnows(entry)
  BY <1>6, <1>8, <1>12
<1> QED BY <1>11, <1>12

(* A spoilt entry is refused.                                              *)
LEMMA SpoiltRefused ==
  ASSUME document.defect \in JsonDefects, NEW entry \in FieldEntries, NEW i
  PROVE  ~JsonEntry(SpoiltJson(WrittenJsonField(entry)), i).ok
<1> DEFINE field == WrittenJsonField(entry)
           spoilt == SpoiltJson(field)
           what == document.defect.what
<1>1. /\ document.defect.format = "json"
      /\ what \in {"two-lengths", "no-length", "odd-hex", "no-hex"}
  BY DEF JsonDefects
<1>2. ~Invalid.ok
  BY Outcomes DEF Invalid
<1>d. {"length", "length_bits", "target"} \subseteq DOMAIN field
  BY DEF WrittenJsonField
<1>3. SUFFICES ~JsonLength(spoilt).ok \/ ~JsonTarget(spoilt.target).ok
  <2>1. ~JsonEntry(spoilt, i).ok
    BY <1>2, <1>3 DEF JsonEntry, Entry
  <2> QED BY <2>1
<1>4. CASE what = "two-lengths"
  <2>1. spoilt = [field EXCEPT !.length = [kind |-> "fixed", n |-> 8],
                               !.length_bits = 8]
    BY <1>1, <1>4 DEF SpoiltJson
  <2>2. spoilt.length = [kind |-> "fixed", n |-> 8] /\ spoilt.length_bits = 8
    <3> HIDE DEF field, spoilt
    <3> QED BY <1>d, <2>1
  <2>3. 8 # Absent /\ [kind |-> "fixed", n |-> 8] # Absent
    BY KeysAssumption DEF LengthKinds
  <2>4. JsonLength(spoilt) = Invalid
    BY <2>2, <2>3 DEF JsonLength
  <2> QED BY <1>2, <2>4
<1>5. CASE what = "no-length"
  <2>1. spoilt = [field EXCEPT !.length = Absent, !.length_bits = Absent]
    BY <1>1, <1>5 DEF SpoiltJson
  <2>2. spoilt.length = Absent /\ spoilt.length_bits = Absent
    <3> HIDE DEF field, spoilt
    <3> QED BY <1>d, <2>1
  <2>3. JsonLength(spoilt) = Invalid
    BY <2>2 DEF JsonLength
  <2> QED BY <1>2, <2>3
<1>6. ASSUME NEW digits, ~DecodeHex(digits).ok,
             spoilt = [field EXCEPT !.target = [kind |-> "string", values |-> <<digits>>]]
      PROVE  ~JsonTarget(spoilt.target).ok
  <2> DEFINE target == spoilt.target
             results == [k \in 1..Len(target.values) |-> DecodeHex(target.values[k])]
  <2>1. target.kind = "string" /\ target.values = <<digits>>
    <3> HIDE DEF field, spoilt
    <3>1. spoilt.target = [kind |-> "string", values |-> <<digits>>]
      BY <1>d, <1>6
    <3> QED BY <3>1
  <2> HIDE DEF target
  <2>2. Len(target.values) = 1 /\ target.values[1] = digits
    BY <2>1
  <2>3. results = [k \in 1..1 |-> results[k]] /\ ~results[1].ok
    BY <1>6, <2>2
  <2> HIDE DEF results
  <2>4. ~AllOk(results).ok
    <3>1. 1 \in Nat /\ 1 \in 1..1
      OBVIOUS
    <3> QED BY <2>3, <3>1, OneRefused
  <2>5. JsonTarget(target) = Invalid
    BY <2>1, <2>4 DEF JsonTarget, results
  <2> QED BY <1>2, <2>5 DEF target
<1>7. CASE what = "odd-hex"
  <2>1. spoilt = [field EXCEPT !.target = [kind |-> "string", values |-> <<<<1, 2, 3>>>>]]
    BY <1>1, <1>7 DEF SpoiltJson
  <2>2. ~DecodeHex(<<1, 2, 3>>).ok
    <3>1. Len(<<1, 2, 3>>) % 2 # 0
      OBVIOUS
    <3> QED BY <1>2, <3>1 DEF DecodeHex
  <2> QED BY <1>6, <2>1, <2>2
<1>8. CASE what = "no-hex"
  <2>1. spoilt = [field EXCEPT !.target = [kind |-> "string", values |-> <<<<16, 0>>>>]]
    BY <1>1, <1>8 DEF SpoiltJson
  <2>2. ~DecodeHex(<<16, 0>>).ok
    <3>1. 1 \in 1..Len(<<16, 0>>) /\ <<16, 0>>[1] \notin 0..15
      OBVIOUS
    <3> QED BY <1>2, <3>1 DEF DecodeHex
  <2> QED BY <1>6, <2>1, <2>2
<1> QED BY <1>1, <1>4, <1>5, <1>7, <1>8

(* What a rule is made of in a JSON file, and whether it loads.            *)
Clean(r) == r = 1 => document.defect \notin JsonDefects

CountedRule(rule) ==
  [rule EXCEPT !.entries =
     [k \in 1..Len(rule.entries) |-> [rule.entries[k] EXCEPT !.index = k - 1]]]

Readable(rule) ==
  /\ ValidRuleId(rule.id)
  /\ \A k \in 1..Len(rule.entries) :
        JsonKnows(rule.entries[k]) /\ ValidEntry(rule.entries[k])

LEMMA RuleBack ==
  ASSUME RegistryInv, document \in Documents, NEW r \in 1..Len(document.rules)
  PROVE  LET rule == document.rules[r]
             loaded == JsonRule(WrittenJsonRule(r, rule))
         IN /\ Readable(rule) /\ Clean(r) => loaded = Ok(CountedRule(rule))
            /\ loaded.ok => Readable(rule) /\ Clean(r)
<1> DEFINE rule == document.rules[r]
           n == Len(rule.entries)
           field(k) == WrittenJsonField(rule.entries[k])
           fields == [k \in 1..n |-> IF r = 1 /\ k = 1 THEN SpoiltJson(field(k))
                                     ELSE field(k)]
           written == WrittenJsonRule(r, rule)
           results == [k \in 1..Len(written.fields) |->
                         JsonEntry(written.fields[k], k - 1)]
           entries == AllOk(results)
           nature == JsonNature(written.nature)
           id == [value |-> written.rule_id, len |-> written.rule_id_length]
           counted == [k \in 1..n |-> [rule.entries[k] EXCEPT !.index = k - 1]]
<1>1. /\ document.rules \in Seq(RuleRecords)
      /\ document.defect \in {NoDefect} \cup JsonDefects \cup CborDefects
      /\ \A k \in 1..Len(rule.entries) : Writable(rule.entries[k])
      /\ r = 1 /\ document.defect # NoDefect => rule.entries # <<>>
  BY DocumentsAssumption, DefectsAssumption
<1>2. /\ rule \in RuleRecords
      /\ rule.entries \in Seq(FieldEntries) /\ n \in Nat
      /\ \A k \in 1..n : rule.entries[k] \in FieldEntries
  <2>1. rule.entries \in Seq(FieldEntries) /\ n \in Nat
    BY <1>1, EntriesListed
  <2> DEFINE F == FieldEntries
  <2> HIDE DEF F
  <2>2. \A k \in 1..n : rule.entries[k] \in F
    BY <2>1 DEF F
  <2> QED BY <1>1, <2>1, <2>2 DEF F
<1>3. /\ written.fields = fields
      /\ written.rule_id = rule.id.value /\ written.rule_id_length = rule.id.len
      /\ written.nature = IF document.terse /\ rule.nature = "compression" THEN Absent
                          ELSE rule.nature
  BY DEF WrittenJsonRule
<1>4. id = rule.id /\ rule.nature \in Natures
  BY <1>2, <1>3 DEF RuleRecords
<1>5. nature = Ok(rule.nature)
  <2>1. Absent \notin Natures /\ Absent # "nature-management"
    BY KeysAssumption
  <2>2. rule.nature # Absent
    BY <1>4, <2>1
  <2> DEFINE given == written.nature
  <2>3. given = rule.nature \/ (given = Absent /\ rule.nature = "compression")
    BY <1>3
  <2> HIDE DEF given
  <2>4. ASSUME given = Absent PROVE JsonNature(given) = Ok(rule.nature)
    BY <2>1, <2>2, <2>3, <2>4 DEF JsonNature
  <2>5. ASSUME given # Absent PROVE JsonNature(given) = Ok(rule.nature)
    <3>1. given = rule.nature /\ given \in Natures
      BY <1>4, <2>3, <2>5
    <3>2. given # "nature-management"
      BY <3>1 DEF Natures
    <3> QED BY <2>5, <3>1, <3>2 DEF JsonNature
  <2>6. JsonNature(given) = Ok(rule.nature)
    BY <2>4, <2>5
  <2> QED BY <2>6 DEF given
<1> HIDE DEF rule, written
<1>6. Len(written.fields) = n /\ \A k \in 1..n : written.fields[k] = fields[k]
  <2> HIDE DEF n
  <2> QED BY <1>2, <1>3
<1>7. results = [k \in 1..n |-> results[k]]
      /\ \A k \in 1..n : results[k] = JsonEntry(written.fields[k], k - 1)
  BY <1>6
<1>8. ASSUME NEW k \in 1..n, Clean(r)
      PROVE  results[k] = IF JsonKnows(rule.entries[k]) /\ ValidEntry(rule.entries[k])
                          THEN Ok(counted[k]) ELSE Invalid
  <2>1. written.fields[k] = field(k)
    <3>1. CASE r = 1 /\ k = 1
      <4>1. document.defect.format # "json"
        BY <1>1, <1>8, <3>1 DEF Clean, NoDefect, CborDefects
      <4>2. SpoiltJson(field(k)) = field(k)
        BY <4>1 DEF SpoiltJson
      <4> QED BY <1>6, <4>2
    <3>2. CASE ~(r = 1 /\ k = 1)
      BY <1>6, <3>2
    <3> QED BY <3>1, <3>2
  <2>2. k - 1 \in Nat /\ rule.entries[k] \in FieldEntries /\ Writable(rule.entries[k])
    BY <1>1, <1>2
  <2>3. JsonEntry(field(k), k - 1) =
          IF JsonKnows(rule.entries[k]) /\ ValidEntry(rule.entries[k])
          THEN Ok([rule.entries[k] EXCEPT !.index = k - 1]) ELSE Invalid
    BY <2>2, EntryBack
  <2>4. counted[k] = [rule.entries[k] EXCEPT !.index = k - 1]
    OBVIOUS
  <2> QED BY <1>7, <2>1, <2>3, <2>4
<1>9. ~Clean(r) => 1 \in 1..n /\ ~results[1].ok
  <2> SUFFICES ASSUME ~Clean(r) PROVE 1 \in 1..n /\ ~results[1].ok
    OBVIOUS
  <2>1. r = 1 /\ document.defect \in JsonDefects
    BY DEF Clean
  <2>2. document.defect # NoDefect
    BY <2>1 DEF JsonDefects, NoDefect
  <2>3. 1 \in 1..n
    <3>1. rule.entries # <<>>
      BY <1>1, <2>1, <2>2
    <3>2. n # 0
      BY <1>2, <3>1, EmptySeq
    <3> HIDE DEF n
    <3> QED BY <1>2, <3>2
  <2>4. written.fields[1] = SpoiltJson(field(1))
    BY <1>6, <2>1, <2>3
  <2>5. ~JsonEntry(SpoiltJson(field(1)), 1 - 1).ok
    BY <1>2, <2>1, <2>3, SpoiltRefused
  <2> QED BY <1>7, <2>3, <2>4, <2>5
<1>10. JsonRule(written) =
        CASE ~ValidRuleId(id) -> Err("InvalidRule")
          [] ValidRuleId(id) /\ ~entries.ok -> entries
          [] ValidRuleId(id) /\ entries.ok /\ ~nature.ok -> nature
          [] OTHER -> Ok([id |-> id, nature |-> nature.value, entries |-> entries.value])
  BY DEF JsonRule
<1> HIDE DEF results, entries, nature, id
<1>11. ASSUME Readable(rule), Clean(r) PROVE JsonRule(written) = Ok(CountedRule(rule))
  <2>1. \A k \in 1..n : results[k] = Ok(counted[k])
    BY <1>8, <1>11 DEF Readable
  <2>2. Len(counted) = n /\ counted = [k \in 1..n |-> counted[k]]
    <3> HIDE DEF n
    <3> QED BY <1>2
  <2>3. results = [k \in 1..n |-> Ok(counted[k])]
    <3> HIDE DEF counted
    <3> QED BY <1>7, <2>1
  <2>4. entries = Ok(counted)
    <3> HIDE DEF counted, n
    <3>1. AllOk(results) = Ok([k \in 1..n |-> counted[k]])
      BY <1>2, <2>2, <2>3, AllOkGiven
    <3> QED BY <2>2, <3>1 DEF entries
  <2> HIDE DEF counted
  <2>5. JsonRule(written) =
          Ok([id |-> rule.id, nature |-> rule.nature, entries |-> counted])
    BY <1>4, <1>5, <1>10, <1>11, <2>4, Outcomes DEF Readable
  <2>6. CountedRule(rule) = [id |-> rule.id, nature |-> rule.nature, entries |-> counted]
    <3>1. rule = [id |-> rule.id, nature |-> rule.nature, entries |-> rule.entries]
      BY <1>2 DEF RuleRecords
    <3>2. CountedRule(rule) = [rule EXCEPT !.entries = counted]
      BY DEF CountedRule, counted
    <3> QED BY <3>1, <3>2
  <2> QED BY <2>5, <2>6
<1>12. ASSUME JsonRule(written).ok PROVE Readable(rule) /\ Clean(r)
  <2>1. ValidRuleId(rule.id) /\ entries.ok
    BY <1>4, <1>10, <1>12, Outcomes
  <2>2. \A k \in 1..n : results[k].ok
    <3> HIDE DEF n
    <3> QED BY <1>2, <1>7, <2>1, OneRefused DEF entries
  <2>3. Clean(r)
    BY <1>9, <2>2
  <2>4. ASSUME NEW k \in 1..n
        PROVE  JsonKnows(rule.entries[k]) /\ ValidEntry(rule.entries[k])
    BY <1>8, <2>2, <2>3, Outcomes DEF Invalid
  <2> QED BY <2>1, <2>3, <2>4 DEF Readable
<1> QED BY <1>11, <1>12 DEF rule, written

(* What numbering the entries leaves as it was.                            *)
LEMMA CountedFacts ==
  ASSUME NEW rule \in RuleRecords
  PROVE  LET counted == CountedRule(rule)
         IN /\ counted.id = rule.id /\ counted.nature \in Natures
            /\ Len(counted.entries) = Len(rule.entries)
            /\ Normalized(counted.entries)
            /\ \A k \in 1..Len(rule.entries) :
                 /\ JsonKnows(counted.entries[k]) <=> JsonKnows(rule.entries[k])
                 /\ ValidEntry(counted.entries[k]) <=> ValidEntry(rule.entries[k])
<1> DEFINE n == Len(rule.entries)
           counted == CountedRule(rule)
           list == [k \in 1..n |-> [rule.entries[k] EXCEPT !.index = k - 1]]
<1>1. /\ rule.nature \in Natures /\ n \in Nat
      /\ \A k \in 1..n : rule.entries[k] \in FieldEntries
  <2> DEFINE F == FieldEntries
  <2> HIDE DEF F
  <2>1. rule.entries \in Seq(F) /\ rule.nature \in Natures
    BY DEF RuleRecords, F
  <2>2. n \in Nat /\ \A k \in 1..n : rule.entries[k] \in F
    BY <2>1
  <2> QED BY <2>1, <2>2 DEF F
<1>2. counted.id = rule.id /\ counted.nature = rule.nature /\ counted.entries = list
  BY DEF CountedRule, RuleRecords
<1> HIDE DEF counted, n
<1>3. Len(list) = n /\ \A k \in 1..n : list[k] = [rule.entries[k] EXCEPT !.index = k - 1]
  BY <1>1
<1>4. ASSUME NEW k \in 1..n
      PROVE  /\ list[k].index = k - 1
             /\ list[k].field = rule.entries[k].field
             /\ list[k].number = rule.entries[k].number
             /\ list[k].dir = rule.entries[k].dir
             /\ list[k].length = rule.entries[k].length
             /\ list[k].target = rule.entries[k].target
             /\ list[k].matching = rule.entries[k].matching
             /\ list[k].action = rule.entries[k].action
  BY <1>1, <1>3 DEF FieldEntries
<1> HIDE DEF list
<1>5. Normalized(list)
  BY <1>1, <1>3, <1>4 DEF Normalized
<1>6. ASSUME NEW k \in 1..n
      PROVE  ValidEntry(list[k]) <=> ValidEntry(rule.entries[k])
  BY <1>4 DEF ValidEntry, PayloadLengthSupported
<1>7. ASSUME NEW k \in 1..n
      PROVE  JsonKnows(list[k]) <=> JsonKnows(rule.entries[k])
  BY <1>4 DEF JsonKnows, IsNamed, OptionName
<1>8. /\ counted.id = rule.id /\ counted.nature \in Natures
      /\ Len(counted.entries) = n /\ Normalized(counted.entries)
      /\ \A k \in 1..n :
           /\ JsonKnows(counted.entries[k]) <=> JsonKnows(rule.entries[k])
           /\ ValidEntry(counted.entries[k]) <=> ValidEntry(rule.entries[k])
  BY <1>1, <1>2, <1>3, <1>5, <1>6, <1>7
<1> QED BY <1>8 DEF counted, n

LEMMA CountedRules ==
  ASSUME NEW rs \in Seq(RuleRecords)
  PROVE  /\ Len(Counted(rs)) = Len(rs)
         /\ Counted(rs) = [r \in 1..Len(rs) |-> Counted(rs)[r]]
         /\ \A r \in 1..Len(rs) : Counted(rs)[r] = CountedRule(rs[r])
<1> DEFINE n == Len(rs)
           list == [r \in 1..n |-> CountedRule(rs[r])]
<1>1. n \in Nat
  OBVIOUS
<1>2. Counted(rs) = list
  BY DEF Counted, CountedRule
<1> HIDE DEF n
<1>3. Len(list) = n /\ list = [r \in 1..n |-> list[r]]
      /\ \A r \in 1..n : list[r] = CountedRule(rs[r])
  BY <1>1
<1> QED BY <1>2, <1>3 DEF n

(* What the JSON loader may return for the document.                       *)
JsonFaithful(result) ==
  LET rules == Counted(document.rules)
      knows == \A e \in Entries(rules) : JsonKnows(rules[e[1]].entries[e[2]])
  IN IF Loads(rules) /\ knows /\ document.defect \notin JsonDefects
     THEN result = Ok(rules) ELSE ~result.ok

(* It changes only with the registry and the document.                     *)
LEMMA FaithfulStays ==
  ASSUME UNCHANGED <<inserted, document>>
  PROVE  \A result : JsonFaithful(result)' <=> JsonFaithful(result)
<1>1. \A i : Known(i)' <=> Known(i)
  BY DEF Known, InForce
<1>2. \A e : IsNamed(e)' <=> IsNamed(e)
  BY DEF IsNamed
<1>3. \A e : JsonKnows(e)' <=> JsonKnows(e)
  BY <1>1, <1>2 DEF JsonKnows
<1> QED BY <1>3 DEF JsonFaithful

(* The rules of a file that loads are those of the document.               *)
LEMMA JsonBack ==
  ASSUME RegistryInv, document \in Documents
  PROVE  JsonFaithful(FromJson(Written(document.rules, WrittenJsonRule)))
<1> DEFINE rs == document.rules
           n == Len(rs)
           written == [r \in 1..n |-> WrittenJsonRule(r, rs[r])]
           results == [r \in 1..Len(written) |-> JsonRule(written[r])]
           rules == Counted(rs)
           knows == \A e \in Entries(rules) : JsonKnows(rules[e[1]].entries[e[2]])
           result == FromJson(Written(rs, WrittenJsonRule))
<1>1. /\ rs \in Seq(RuleRecords) /\ n \in Nat
      /\ document.defect # NoDefect => rs # <<>>
  BY DocumentsAssumption, DefectsAssumption
<1>2. result = RuleSet(results)
  BY DEF Written, FromJson
<1>3. Len(written) = n /\ \A r \in 1..n : written[r] = WrittenJsonRule(r, rs[r])
  BY <1>1
<1>4. /\ results = [r \in 1..n |-> results[r]]
      /\ \A r \in 1..n : results[r] = JsonRule(WrittenJsonRule(r, rs[r]))
  BY <1>3
<1>5. \A r \in 1..n :
        /\ Readable(rs[r]) /\ Clean(r) => results[r] = Ok(CountedRule(rs[r]))
        /\ results[r].ok => Readable(rs[r]) /\ Clean(r)
  BY <1>4, RuleBack
<1> HIDE DEF written, results, result
<1>6. /\ Len(rules) = n /\ rules = [r \in 1..n |-> rules[r]]
      /\ \A r \in 1..n : rules[r] = CountedRule(rs[r])
  BY <1>1, CountedRules
<1>7. \A r \in 1..n :
        /\ rules[r].id = rs[r].id /\ rules[r].nature \in Natures
        /\ Len(rules[r].entries) = Len(rs[r].entries)
        /\ Normalized(rules[r].entries)
        /\ \A k \in 1..Len(rs[r].entries) :
             /\ JsonKnows(rules[r].entries[k]) <=> JsonKnows(rs[r].entries[k])
             /\ ValidEntry(rules[r].entries[k]) <=> ValidEntry(rs[r].entries[k])
  <2> SUFFICES ASSUME NEW r \in 1..n
               PROVE  /\ rules[r].id = rs[r].id /\ rules[r].nature \in Natures
                      /\ Len(rules[r].entries) = Len(rs[r].entries)
                      /\ Normalized(rules[r].entries)
                      /\ \A k \in 1..Len(rs[r].entries) :
                           /\ JsonKnows(rules[r].entries[k]) <=> JsonKnows(rs[r].entries[k])
                           /\ ValidEntry(rules[r].entries[k]) <=> ValidEntry(rs[r].entries[k])
    OBVIOUS
  <2> DEFINE R == RuleRecords
             before == rs[r]
             after == rules[r]
  <2>1. before \in RuleRecords
    <3> HIDE DEF R
    <3>1. rs \in Seq(R)
      BY <1>1 DEF R
    <3>2. rs[r] \in R
      BY <3>1
    <3> QED BY <3>2 DEF R
  <2>2. after = CountedRule(before)
    BY <1>6
  <2> HIDE DEF before, after
  <2>3. /\ after.id = before.id /\ after.nature \in Natures
        /\ Len(after.entries) = Len(before.entries)
        /\ Normalized(after.entries)
        /\ \A k \in 1..Len(before.entries) :
             /\ JsonKnows(after.entries[k]) <=> JsonKnows(before.entries[k])
             /\ ValidEntry(after.entries[k]) <=> ValidEntry(before.entries[k])
    BY <2>1, <2>2, CountedFacts
  <2> QED BY <2>3 DEF before, after
<1> HIDE DEF rules, n
<1>8. Loads(rules) <=>
        /\ \A r \in 1..n : /\ ValidRuleId(rs[r].id)
                           /\ \A k \in 1..Len(rs[r].entries) : ValidEntry(rs[r].entries[k])
        /\ ValidRuleIdPrefixes(rules)
  BY <1>6, <1>7 DEF Loads
<1>9. knows <=> \A r \in 1..n : \A k \in 1..Len(rs[r].entries) : JsonKnows(rs[r].entries[k])
  <2>1. \A e : e \in Entries(rules) <=>
           \E r \in 1..n : \E k \in 1..Len(rs[r].entries) : e = <<r, k>>
    BY <1>6, <1>7 DEF Entries
  <2>2. ASSUME knows, NEW r \in 1..n, NEW k \in 1..Len(rs[r].entries)
        PROVE  JsonKnows(rs[r].entries[k])
    <3>1. <<r, k>> \in Entries(rules)
      BY <2>1
    <3>2. JsonKnows(rules[<<r, k>>[1]].entries[<<r, k>>[2]])
      BY <2>2, <3>1
    <3>3. JsonKnows(rules[r].entries[k])
      BY <3>2
    <3> QED BY <1>7, <3>3
  <2>3. ASSUME \A r \in 1..n : \A k \in 1..Len(rs[r].entries) : JsonKnows(rs[r].entries[k]),
               NEW e \in Entries(rules)
        PROVE  JsonKnows(rules[e[1]].entries[e[2]])
    <3>0. PICK r \in 1..n : \E k \in 1..Len(rs[r].entries) : e = <<r, k>>
      BY <2>1
    <3>1. PICK k \in 1..Len(rs[r].entries) : e = <<r, k>>
      BY <3>0
    <3>2. e[1] = r /\ e[2] = k
      BY <3>1
    <3>3. JsonKnows(rules[r].entries[k])
      BY <1>7, <2>3
    <3> QED BY <3>2, <3>3
  <2> QED BY <2>2, <2>3
<1>10. document.defect \notin JsonDefects <=> \A r \in 1..n : Clean(r)
  <2>1. document.defect \in JsonDefects => 1 \in 1..n
    <3> SUFFICES ASSUME document.defect \in JsonDefects PROVE 1 \in 1..n
      OBVIOUS
    <3>1. document.defect # NoDefect
      BY DEF JsonDefects, NoDefect
    <3>2. n # 0
      BY <1>1, <3>1, EmptySeq DEF n
    <3> QED BY <1>1, <3>2
  <2> QED BY <2>1 DEF Clean
<1>11. (\A r \in 1..n : Readable(rs[r])) <=>
         /\ \A r \in 1..n : /\ ValidRuleId(rs[r].id)
                            /\ \A k \in 1..Len(rs[r].entries) : ValidEntry(rs[r].entries[k])
         /\ knows
  BY <1>9 DEF Readable
<1> HIDE DEF knows
<1>12. ASSUME Loads(rules), knows, document.defect \notin JsonDefects
       PROVE  result = Ok(rules)
  <2>1. \A r \in 1..n : results[r] = Ok(rules[r])
    BY <1>5, <1>6, <1>8, <1>10, <1>11, <1>12
  <2>2. results = [r \in 1..n |-> Ok(rules[r])]
    BY <1>4, <2>1
  <2>3. AllOk(results) = Ok([r \in 1..n |-> rules[r]])
    BY <1>1, <1>6, <2>2, AllOkGiven
  <2>4. AllOk(results) = Ok(rules)
    BY <1>6, <2>3
  <2>5. ValidRuleIdPrefixes(rules)
    BY <1>8, <1>12
  <2> QED BY <1>2, <2>4, <2>5, Outcomes DEF RuleSet
<1>13. ASSUME result.ok PROVE Loads(rules) /\ knows /\ document.defect \notin JsonDefects
  <2> DEFINE loaded == AllOk(results)
  <2>1. loaded.ok /\ ValidRuleIdPrefixes(loaded.value)
    BY <1>2, <1>13, Outcomes DEF RuleSet
  <2>2. \A r \in 1..n : results[r].ok
    BY <1>1, <1>4, <2>1, OneRefused
  <2>3. \A r \in 1..n : Readable(rs[r]) /\ Clean(r)
    BY <1>5, <2>2
  <2>4. \A r \in 1..n : results[r] = Ok(rules[r])
    BY <1>5, <1>6, <2>3
  <2>5. results = [r \in 1..n |-> Ok(rules[r])]
    BY <1>4, <2>4
  <2>6. AllOk(results) = Ok([r \in 1..n |-> rules[r]])
    BY <1>1, <1>6, <2>5, AllOkGiven
  <2>7. loaded = Ok(rules)
    BY <1>6, <2>6
  <2>8. loaded.value = rules
    BY <2>7, Outcomes
  <2> HIDE DEF loaded
  <2>9. ValidRuleIdPrefixes(rules)
    BY <2>1, <2>8
  <2> QED BY <1>8, <1>10, <1>11, <2>3, <2>9
<1>14. IF Loads(rules) /\ knows /\ document.defect \notin JsonDefects
       THEN result = Ok(rules) ELSE ~result.ok
  BY <1>12, <1>13
<1> QED BY <1>14 DEF result, rules, knows, JsonFaithful

(* A JSON file that uses only names that are registered at the time loads  *)
(* as exactly the rules that were written, with the entries numbered by    *)
(* their places; every other one is refused: for any rules, any SID file,  *)
(* any revisions of it, and each way of writing and of spoiling a file.    *)
THEOREM JsonRoundTrip == FilesSpec => []JsonLoadsWhatIsWritten
<1> DEFINE Right == fromJson # NotLoaded => JsonFaithful(fromJson)
           Inv == document \in Documents /\ RegistryInv /\ Right
<1>1. FilesInit => Inv
  BY FilesStart DEF FilesInit
<1>2. Inv /\ [FilesNext]_fileVars => Inv'
  <2> SUFFICES ASSUME Inv, [FilesNext]_fileVars PROVE Inv'
    OBVIOUS
  <2>1. RegistryInv'
    BY FilesKeep
  <2>2. document' = document
    BY DEF FilesNext, Write, Revise, LoadJson, LoadCbor, fileVars
  <2>3. CASE UNCHANGED <<inserted, fromJson>>
    <3>1. JsonFaithful(fromJson)' <=> JsonFaithful(fromJson')
      BY <2>2, <2>3, FaithfulStays
    <3> QED BY <2>1, <2>2, <2>3, <3>1
  <2>4. ASSUME NEW pair \in Revised, Revise(pair[1], pair[2]) PROVE Inv'
    BY <2>1, <2>2, <2>4 DEF Revise
  <2>5. CASE LoadJson
    <3>1. /\ fromJson' = FromJson(Written(document.rules, WrittenJsonRule))
          /\ inserted' = inserted
      BY <2>5 DEF LoadJson, registryVars
    <3>2. JsonFaithful(fromJson')
      BY <3>1, JsonBack
    <3>3. JsonFaithful(fromJson)' <=> JsonFaithful(fromJson')
      BY <2>2, <3>1, FaithfulStays
    <3> QED BY <2>1, <2>2, <3>2, <3>3
  <2>6. CASE Write \/ LoadCbor
    BY <2>3, <2>6 DEF Write, LoadCbor, registryVars
  <2>7. CASE UNCHANGED fileVars
    BY <2>3, <2>7 DEF fileVars, registryVars
  <2> QED BY <2>4, <2>5, <2>6, <2>7 DEF FilesNext
<1>3. Inv => JsonLoadsWhatIsWritten
  BY DEF JsonFaithful, JsonLoadsWhatIsWritten
<1> QED BY <1>1, <1>2, <1>3, PTL DEF FilesSpec

-----------------------------------------------------------------------------
(* CBOR.  A rule set comes back from a CORECONF file: the numbers, then a  *)
(* value list, an entry, a rule and the file.                              *)

(* What the reader of the files has, and what their writer had.            *)
FilesReady == RegistryInv /\ edition.value \in Seq(Identifiers \X Sids)

(* A steady number is read as the name it was written for, or as none.     *)
LEMMA NumberedBack ==
  ASSUME FilesReady, NEW i, Steady(i)
  PROVE  /\ Numbering(i) \in Nat \ {0}
         /\ IdentifierOf(Numbering(i)) = IF Resolves(i) THEN i ELSE Absent
<1> DEFINE items == edition.value
           assigned == {k \in 1..Len(items) :
                          /\ items[k][1] = i
                          /\ \A l \in (k + 1)..Len(items) :
                                items[l][1] # i /\ items[l][2] # items[k][2]}
           s == Numbering(i)
<1>1. s = IF assigned = {} THEN Unassigned ELSE items[Max(assigned)][2]
  BY DEF Numbering
<1>2. items \in Seq(Identifiers \X Sids) /\ Len(items) \in Nat
  BY DEF FilesReady
<1>3. s \in Sids \cup {Unassigned}
  <2>1. CASE assigned = {}
    BY <1>1, <2>1
  <2>2. CASE assigned # {}
    <3>1. assigned \subseteq 1..Len(items)
      OBVIOUS
    <3>2. Max(assigned) \in 1..Len(items)
      <4> HIDE DEF assigned
      <4> QED BY <1>2, <2>2, <3>1, LastPosition
    <3> DEFINE m == Max(assigned)
    <3>3. s = items[m][2]
      BY <1>1, <2>2
    <3> HIDE DEF m, s, items
    <3>4. items[m] \in Identifiers \X Sids
      BY <1>2, <3>2 DEF m
    <3> QED BY <3>3, <3>4
  <2> QED BY <2>1, <2>2
<1>4. s \in Nat \ {0}
  <2> HIDE DEF s
  <2> QED BY <1>3, SidsAssumption DEF Unassigned
<1>5. ASSUME NEW j, InForce(j, s) PROVE j \in Identifiers /\ s \in Sids
  <2>1. PICK k \in 1..Len(inserted) : inserted[k] = <<j, s>>
    BY <1>5 DEF InForce
  <2>2. inserted[k] \in Identifiers \X Sids
    BY DEF FilesReady, RegistryInv, RegistryTypeOK
  <2> QED BY <2>1, <2>2
<1> HIDE DEF s
<1>6. ASSUME s \in Sids, NEW j \in Identifiers PROVE by_sid[s] = j <=> InForce(j, s)
  <2>1. by_identifier[j] = s <=> by_sid[s] = j
    BY <1>6 DEF FilesReady, RegistryInv, MapsAgree
  <2>2. by_identifier[j] = s <=> InForce(j, s)
    BY <1>6 DEF FilesReady, RegistryInv, LatestWins
  <2> QED BY <2>1, <2>2
<1>7. \A j \in Identifiers : InForce(j, s) => j = i
  BY DEF Steady, s
<1>8. Resolves(i) <=> InForce(i, s)
  BY DEF Resolves, s
<1>9. CASE Resolves(i)
  <2>1. i \in Identifiers /\ s \in Sids
    BY <1>5, <1>8, <1>9
  <2>2. by_sid[s] = i
    BY <1>6, <1>8, <1>9, <2>1
  <2>3. IdentifierOf(s) = i
    BY <2>1, <2>2 DEF IdentifierOf
  <2> QED BY <1>4, <1>9, <2>3 DEF s
<1>10. CASE ~Resolves(i)
  <2>1. ASSUME s \in Sids PROVE by_sid[s] = Absent
    <3>1. by_sid[s] \in Identifiers \cup {Absent}
      BY <2>1 DEF FilesReady, RegistryInv, RegistryTypeOK
    <3>2. ASSUME by_sid[s] \in Identifiers PROVE FALSE
      BY <1>6, <1>7, <1>8, <1>10, <2>1, <3>2
    <3> QED BY <3>1, <3>2
  <2>2. IdentifierOf(s) = Absent
    BY <2>1 DEF IdentifierOf
  <2> QED BY <1>4, <1>10, <2>2 DEF s
<1> QED BY <1>9, <1>10

(* A file has the members of a list each in one place.                     *)
Permutes(order, n) ==
  /\ order \in [1..n -> 1..n]
  /\ \A j, k \in 1..n : j # k => order[j] # order[k]
  /\ \A m \in 1..n : \E k \in 1..n : order[k] = m

Reorders(list, s, n, order) ==
  /\ Permutes(order, n)
  /\ Len(list) = n
  /\ list = [k \in 1..n |-> s[order[k]]]

LEMMA OrderPermutes ==
  ASSUME NEW n \in Nat, NEW s, s = [k \in 1..n |-> s[k]]
  PROVE  \E order : Reorders(InFileOrder(s), s, n, order)
<1> DEFINE same == [k \in 1..n |-> k]
           back == [k \in 1..n |-> n - k + 1]
           turned == [k \in 1..n |-> IF k < n THEN k + 1 ELSE 1]
           S == {s[k] : k \in 1..n}
<1>1. s \in Seq(S) /\ Len(s) = n
  BY Listed
<1>2. Permutes(same, n)
  BY DEF Permutes
<1>3. Permutes(back, n)
  <2>1. \A m \in 1..n : n - m + 1 \in 1..n /\ back[n - m + 1] = m
    OBVIOUS
  <2> QED BY <2>1 DEF Permutes
<1>4. Permutes(turned, n)
  <2>1. ASSUME NEW m \in 1..n PROVE \E k \in 1..n : turned[k] = m
    <3>1. CASE m = 1
      <4>1. n \in 1..n /\ turned[n] = 1
        OBVIOUS
      <4> QED BY <3>1, <4>1
    <3>2. CASE m # 1
      <4>1. m - 1 \in 1..n /\ turned[m - 1] = m
        BY <3>2
      <4> QED BY <4>1
    <3> QED BY <3>1, <3>2
  <2>2. turned \in [1..n -> 1..n]
    OBVIOUS
  <2>3. \A j, k \in 1..n : j # k => turned[j] # turned[k]
    OBVIOUS
  <2> HIDE DEF turned
  <2> QED BY <2>1, <2>2, <2>3 DEF Permutes
<1>g. ASSUME NEW order, Permutes(order, n), Len(InFileOrder(s)) = n,
             InFileOrder(s) = [k \in 1..n |-> s[order[k]]]
      PROVE  \E any : Reorders(InFileOrder(s), s, n, any)
  BY <1>g DEF Reorders
<1>5. s = [k \in 1..n |-> s[same[k]]]
  OBVIOUS
<1>6. CASE InFileOrder(s) = s
  <2> HIDE DEF same
  <2> QED BY <1>1, <1>2, <1>5, <1>6, <1>g
<1>7. CASE s # <<>> /\ InFileOrder(s) = Reverse(s)
  <2>1. Reverse(s) = [k \in 1..n |-> s[back[k]]]
    <3>1. Reverse(s) = [k \in 1..n |-> s[(n - k) + 1]]
      BY <1>1 DEF Reverse
    <3>2. \A k \in 1..n : back[k] = (n - k) + 1
      OBVIOUS
    <3> QED BY <3>1, <3>2
  <2>2. Len(Reverse(s)) = n
    BY <1>1 DEF Reverse
  <2> HIDE DEF back
  <2> QED BY <1>3, <1>7, <1>g, <2>1, <2>2
<1>8. CASE s # <<>> /\ InFileOrder(s) = Tail(s) \o <<Head(s)>>
  <2> DEFINE t == Tail(s)
             last == <<Head(s)>>
  <2>0. n # 0
    BY <1>1, <1>8, EmptySeq
  <2> DEFINE m == n - 1
  <2>1. m \in Nat /\ n = m + 1 /\ s # <<>>
    BY <1>8, <2>0
  <2> HIDE DEF m, S
  <2>2. /\ Len(t) = m /\ t \in Seq(S)
        /\ \A k \in 1..m : t[k] = s[k + 1]
    BY <1>1, <2>1, HeadTailProperties
  <2>3. last[1] = s[1] /\ Len(last) = 1 /\ last \in Seq(S)
    BY <1>1, <2>1, HeadTailProperties
  <2> HIDE DEF t, last
  <2> DEFINE u == t \o last
  <2>4. /\ u \in Seq(S) /\ Len(u) = m + 1
        /\ \A k \in 1..(m + 1) : u[k] = IF k <= m THEN t[k] ELSE last[k - m]
    <3>1. u \in Seq(S) /\ Len(u) = Len(t) + Len(last)
      BY <2>2, <2>3, ConcatProperties DEF u
    <3>2. \A k \in 1..(Len(t) + Len(last)) :
             u[k] = IF k <= Len(t) THEN t[k] ELSE last[k - Len(t)]
      BY <2>2, <2>3, ConcatProperties DEF u
    <3> QED BY <2>1, <2>2, <2>3, <3>1, <3>2
  <2> HIDE DEF u
  <2>5. u = [k \in 1..n |-> u[k]]
    BY <2>1, <2>4
  <2>6. ASSUME NEW k \in 1..n PROVE u[k] = s[turned[k]]
    <3>1. CASE k < n
      <4>1. k \in 1..m /\ k <= m /\ turned[k] = k + 1
        BY <2>1, <3>1
      <4> QED BY <2>1, <2>2, <2>4, <4>1
    <3>2. CASE ~(k < n)
      <4>1. k = m + 1 /\ ~(k <= m) /\ k - m = 1 /\ turned[k] = 1
        BY <2>1, <3>2
      <4>2. u[k] = last[k - m]
        BY <2>1, <2>4, <4>1
      <4> QED BY <2>3, <4>1, <4>2
    <3> QED BY <3>1, <3>2
  <2> HIDE DEF turned
  <2>7. u = [k \in 1..n |-> s[turned[k]]]
    BY <2>5, <2>6
  <2> QED BY <1>4, <1>8, <1>g, <2>1, <2>4, <2>7 DEF t, last, u
<1>9. InFileOrder(s) \in {s, Reverse(s), Tail(s) \o <<Head(s)>>}
      /\ (s = <<>> => InFileOrder(s) = s)
  BY DEF InFileOrder, Shuffled
<1> QED BY <1>6, <1>7, <1>8, <1>9

IndexedList(n, values) == [k \in 1..n |-> Indexed(k - 1, values[k])]

(* A value list comes back in the order of its indexes.                    *)
LEMMA ListBack ==
  ASSUME NEW n \in Nat, NEW values, values = [k \in 1..n |-> values[k]]
  PROVE  ValueList(Array(InFileOrder(IndexedList(n, values)))) = Ok(values)
<1> DEFINE listed == IndexedList(n, values)
           list == InFileOrder(listed)
           at(index) == CHOOSE k \in 1..Len(list) : list[k].v[1].v = index
           value == Array(list)
<1>1. \A k \in 1..n : listed[k] = Indexed(k - 1, values[k])
  BY DEF IndexedList
<1>2. listed = [k \in 1..n |-> listed[k]]
  BY DEF IndexedList
<1> HIDE DEF listed
<1>2a. PICK order : Reorders(list, listed, n, order)
  BY <1>2, OrderPermutes
<1>3. /\ Permutes(order, n) /\ Len(list) = n
      /\ list = [k \in 1..n |-> listed[order[k]]]
  BY <1>2a DEF Reorders
<1>4. ASSUME NEW i, NEW v
      PROVE  /\ Indexed(i, v).type = "map"
             /\ DOMAIN Indexed(i, v).v = {1, 2}
             /\ Indexed(i, v).v[1].type = "int" /\ Indexed(i, v).v[1].v = i
             /\ Indexed(i, v).v[2] = v
  BY DEF Indexed, Map, IntValue
<1> HIDE DEF list
<1>5. ASSUME NEW k \in 1..n
      PROVE  /\ order[k] \in 1..n
             /\ list[k].type = "map" /\ DOMAIN list[k].v = {1, 2}
             /\ list[k].v[1].type = "int"
             /\ list[k].v[1].v = order[k] - 1 /\ list[k].v[1].v \in Nat
             /\ list[k].v[2] = values[order[k]]
  <2>1. order[k] \in 1..n
    BY <1>3 DEF Permutes
  <2>2. list[k] = Indexed(order[k] - 1, values[order[k]])
    BY <1>1, <1>3, <2>1
  <2> QED BY <1>4, <2>1, <2>2
<1>6. \A k \in 1..Len(list) : GetInt(list[k], 1).ok /\ HasKey(list[k], 2)
  <2> TAKE k \in 1..Len(list)
  <2> DEFINE item == list[k]
             index == item.v[1]
  <2>1. /\ item.type = "map" /\ DOMAIN item.v = {1, 2}
        /\ index.type = "int" /\ index.v \in Nat
    BY <1>3, <1>5
  <2> HIDE DEF item
  <2>2. HasKey(item, 1) /\ HasKey(item, 2)
    BY <2>1 DEF HasKey
  <2>3. GetInt(item, 1) = Ok(index.v)
    BY <2>1, <2>2 DEF GetInt, AsInt
  <2> QED BY <2>2, <2>3, Outcomes DEF item
<1>7. {list[k].v[1].v : k \in 1..Len(list)} = 0..(Len(list) - 1)
  <2>0. Len(list) = n
    BY <1>3
  <2>1. ASSUME NEW k \in 1..Len(list) PROVE list[k].v[1].v \in 0..(Len(list) - 1)
    <3>1. order[k] \in 1..n /\ list[k].v[1].v = order[k] - 1
      BY <1>5, <2>0
    <3> QED BY <2>0, <3>1
  <2>2. ASSUME NEW i \in 0..(Len(list) - 1)
        PROVE  \E k \in 1..Len(list) : list[k].v[1].v = i
    <3>1. i + 1 \in 1..n
      BY <2>0
    <3>2. PICK k \in 1..n : order[k] = i + 1
      BY <1>3, <3>1 DEF Permutes
    <3>3. list[k].v[1].v = order[k] - 1
      BY <1>5
    <3>4. order[k] - 1 = i
      BY <3>2
    <3>5. list[k].v[1].v = i
      BY <3>3, <3>4
    <3> QED BY <2>0, <3>5
  <2> QED BY <2>1, <2>2
<1>8. ASSUME NEW k \in 1..n PROVE list[at(k - 1)].v[2] = values[k]
  <2>1. PICK j \in 1..n : order[j] = k
    BY <1>3 DEF Permutes
  <2>2. list[j].v[1].v = k - 1
    BY <1>5, <2>1
  <2>3. at(k - 1) \in 1..n /\ list[at(k - 1)].v[1].v = k - 1
    BY <1>3, <2>2
  <2> HIDE DEF at
  <2>4. order[at(k - 1)] - 1 = k - 1 /\ order[at(k - 1)] \in 1..n
    BY <1>5, <2>3
  <2>5. order[at(k - 1)] = k
    BY <2>4
  <2>6. list[at(k - 1)].v[2] = values[order[at(k - 1)]]
    BY <1>5, <2>3
  <2> QED BY <2>5, <2>6
<1>9. value.type = "array" /\ value.v = list
  BY DEF Array
<1>10. ValueList(value) = Ok([k \in 1..Len(list) |-> list[at(k - 1)].v[2]])
  <2> DEFINE read(v) == Ok([k \in 1..Len(v) |->
                              v[CHOOSE j \in 1..Len(v) : v[j].v[1].v = k - 1].v[2]])
  <2> HIDE DEF value
  <2>1. /\ value.type = "array"
        /\ \A k \in 1..Len(value.v) : GetInt(value.v[k], 1).ok /\ HasKey(value.v[k], 2)
        /\ {value.v[k].v[1].v : k \in 1..Len(value.v)} = 0..(Len(value.v) - 1)
    BY <1>6, <1>7, <1>9
  <2>2. ValueList(value) = read(value.v)
    BY <2>1 DEF ValueList
  <2>3. read(list) = Ok([k \in 1..Len(list) |-> list[at(k - 1)].v[2]])
    OBVIOUS
  <2> HIDE DEF read, at
  <2> QED BY <1>9, <2>2, <2>3
<1> HIDE DEF at
<1>11. [k \in 1..Len(list) |-> list[at(k - 1)].v[2]] = [k \in 1..n |-> values[k]]
  BY <1>3, <1>8
<1> QED BY <1>10, <1>11 DEF list, listed

(* A byte string is read as it was, written as an integer or not.          *)
LEMMA BytesBack == \A b \in Bits : AsByteString(ByteValue(b)) = Ok(b)
<1> TAKE b \in Bits
<1>1. Number(b) \in Nat
  BY NumberType
<1>2. CASE ByteValue(b) = IntValue(Number(b)) /\ b = MinimalBytes(Number(b))
  BY <1>1, <1>2 DEF AsByteString, IntValue
<1>3. CASE ByteValue(b) = [type |-> "bytes", v |-> b]
  BY <1>3 DEF AsByteString
<1> QED BY <1>2, <1>3 DEF ByteValue

LEMMA BytesListBack ==
  ASSUME NEW n \in Nat, NEW values, values = [k \in 1..n |-> values[k]],
         \A k \in 1..n : values[k] \in Bits
  PROVE  ByteStrings(CborList(values)) = Ok(values)
<1> DEFINE written == [k \in 1..n |-> ByteValue(values[k])]
           list == ValueList(CborList(values))
           results == [k \in 1..Len(list.value) |-> AsByteString(list.value[k])]
<1>1. Len(values) = n
  BY Listed
<1>2. written = [k \in 1..n |-> written[k]] /\ Len(written) = n
      /\ \A k \in 1..n : written[k] = ByteValue(values[k])
  OBVIOUS
<1>3. CborList(values) = Array(InFileOrder(IndexedList(n, written)))
  BY <1>1, <1>2 DEF CborList, IndexedList
<1> HIDE DEF written
<1>4. list = Ok(written)
  BY <1>2, <1>3, ListBack
<1>5. list.ok /\ list.value = written
  BY <1>4, Outcomes
<1>6. ByteStrings(CborList(values)) = AllOk(results)
  BY <1>5 DEF ByteStrings
<1> HIDE DEF list
<1>7. results = [k \in 1..n |-> Ok(values[k])]
  BY <1>2, <1>5, BytesBack
<1> HIDE DEF results
<1>8. AllOk(results) = Ok([k \in 1..n |-> values[k]])
  BY <1>1, <1>7, AllOkGiven
<1> QED BY <1>6, <1>8

(* The least number of bytes that hold a number give it back.              *)
LEMMA BytePowers ==
  /\ 256^1 = 2^(8 * 1) /\ 256^2 = 2^(8 * 2) /\ 256^3 = 2^(8 * 3)
  /\ 256^4 = 2^(8 * 4) /\ 256^5 = 2^(8 * 5) /\ 256^6 = 2^(8 * 6)
  /\ 256^7 = 2^(8 * 7) /\ 256^8 = 2^(8 * 8)
OBVIOUS

LEMMA MinimalBack ==
  ASSUME NEW m \in Nat, NEW c \in 1..8, m < 256^c
  PROVE  MinimalBytes(m) \in Bits /\ AsUsize(MinimalBytes(m)) = Ok(m)
<1> DEFINE fits(b) == m < 256^b /\ \A d \in 1..(b - 1) : m >= 256^d
           width == CHOOSE b \in 1..8 : fits(b)
           S == {b \in 1..8 : m < 256^b}
<1>1. \A b \in 1..8 : 256^b = 2^(8 * b) /\ 256^b \in Nat
  <2>1. \A b \in 1..8 : 256^b = 2^(8 * b)
    <3> TAKE b \in 1..8
    <3>1. b = 1 \/ b = 2 \/ b = 3 \/ b = 4 \/ b = 5 \/ b = 6 \/ b = 7 \/ b = 8
      OBVIOUS
    <3>2. CASE b = 1
      BY <3>2, BytePowers, Zenon
    <3>3. CASE b = 2
      BY <3>3, BytePowers, Zenon
    <3>4. CASE b = 3
      BY <3>4, BytePowers, Zenon
    <3>5. CASE b = 4
      BY <3>5, BytePowers, Zenon
    <3>6. CASE b = 5
      BY <3>6, BytePowers, Zenon
    <3>7. CASE b = 6
      BY <3>7, BytePowers, Zenon
    <3>8. CASE b = 7
      BY <3>8, BytePowers, Zenon
    <3>9. CASE b = 8
      BY <3>9, BytePowers, Zenon
    <3> QED BY <3>1, <3>2, <3>3, <3>4, <3>5, <3>6, <3>7, <3>8, <3>9
  <2>2. ASSUME NEW b \in 1..8 PROVE 2^(8 * b) \in Nat
    <3> DEFINE e == 8 * b
    <3>1. e \in Nat
      OBVIOUS
    <3> HIDE DEF e
    <3>2. 2^e \in Nat
      BY <3>1, PowerPositive
    <3> QED BY <3>2 DEF e
  <2> QED BY <2>1, <2>2
<1>2. PICK b \in S : \A d \in S : b <= d
  <2>1. S \subseteq Nat /\ S # {}
    OBVIOUS
  <2> HIDE DEF S
  <2> QED BY <2>1, LeastElement
<1>3. fits(b)
  <2>1. \A d \in 1..(b - 1) : d \in 1..8 /\ d \notin S
    BY <1>2
  <2>2. \A d \in 1..(b - 1) : m >= 256^d
    <3> TAKE d \in 1..(b - 1)
    <3>1. d \in 1..8 /\ d \notin S
      BY <2>1
    <3>2. ~(m < 256^d)
      BY <3>1
    <3>3. 256^d \in Nat
      BY <1>1, <3>1
    <3> DEFINE x == 256^d
    <3> HIDE DEF x
    <3>4. m >= x
      BY <3>2, <3>3 DEF x
    <3> QED BY <3>4 DEF x
  <2> QED BY <1>2, <2>2
<1>4. width \in 1..8 /\ fits(width)
  <2> HIDE DEF fits
  <2> QED BY <1>2, <1>3
<1>5. MinimalBytes(m) = BitsOf(m, 8 * width)
  BY DEF MinimalBytes
<1> HIDE DEF width
<1>6. m < 2^(8 * width) /\ 8 * width \in Nat /\ 8 * width <= 64
  <2>1. m < 256^width /\ width \in 1..8
    BY <1>4
  <2>2. 256^width = 2^(8 * width)
    BY <1>1, <2>1
  <2>3. 8 * width \in Nat /\ 8 * width <= 64
    BY <2>1
  <2> QED BY <2>1, <2>2, <2>3
<1> DEFINE w == 8 * width
<1>7. m < 2^w /\ w \in Nat /\ w <= 64 /\ MinimalBytes(m) = BitsOf(m, w)
  BY <1>5, <1>6
<1> HIDE DEF w
<1>8. Number(BitsOf(m, w)) = m
  BY <1>7, NumberOfBits
<1>9. BitsOf(m, w) \in Bits /\ Len(BitsOf(m, w)) = w
  BY <1>7, BitsOfType
<1> QED BY <1>7, <1>8, <1>9 DEF AsUsize

LEMMA MsbBack ==
  ASSUME NEW b \in Bits
  PROVE  LET list == ValueList(CborList(<<b>>))
         IN list.ok /\ list.value # <<>> /\ AsByteString(list.value[1]) = Ok(b)
<1> DEFINE values == <<b>>
           written == [k \in 1..1 |-> ByteValue(values[k])]
<1>1. Len(values) = 1 /\ values[1] = b
  OBVIOUS
<1>2. written = [k \in 1..1 |-> written[k]] /\ written[1] = ByteValue(b)
      /\ \A k \in 1..1 : written[k] = ByteValue(values[k])
  OBVIOUS
<1>3. CborList(values)
        = Array(InFileOrder([k \in 1..1 |-> Indexed(k - 1, ByteValue(values[k]))]))
  BY <1>1 DEF CborList
<1>4. Len(written) = 1
  OBVIOUS
<1> HIDE DEF written, values
<1>5. CborList(values) = Array(InFileOrder(IndexedList(1, written)))
  BY <1>2, <1>3 DEF IndexedList
<1>6. ValueList(CborList(values)) = Ok(written)
  BY <1>2, <1>5, ListBack
<1>7. written # <<>>
  BY <1>4
<1> QED BY <1>2, <1>6, <1>7, BytesBack, Outcomes DEF values

(* The keys of a written entry, and what is under them.                    *)
LEMMA CborKeys ==
  ASSUME NEW entry
  PROVE  LET value == WrittenCborEntry(entry)
             universal == entry.field = Option /\ ~IsNamed(entry)
         IN /\ \A k \in {1, 5, 7, 8, 12, 16} : HasKey(value, k)
            /\ HasKey(value, 2) <=> ~universal
            /\ HasKey(value, 3) <=> universal
            /\ HasKey(value, 4) <=> universal
            /\ HasKey(value, 6) <=> entry.length.kind \in {"previous", "previous-bits"}
            /\ HasKey(value, 9) <=> entry.target.kind # "none"
            /\ HasKey(value, 13) <=> entry.matching.kind = "msb"
            /\ value.v[1] = IntValue(entry.index)
            /\ ~universal => value.v[2] = Sid(CborName(entry))
            /\ universal => /\ value.v[3] = Sid("space-id-coap")
                            /\ value.v[4] = IntValue(entry.number)
            /\ value.v[5] = IF entry.length.kind = "fixed" THEN IntValue(entry.length.n)
                            ELSE [type |-> "tag45",
                                  v |-> Sid(LengthFunction(entry.length.kind))]
            /\ HasKey(value, 6) => value.v[6] = IntValue(entry.length.n)
            /\ value.v[7] = Sid(DirectionName(entry.dir))
            /\ value.v[8] = IntValue(entry.position)
            /\ HasKey(value, 9) => value.v[9] = CborList(entry.target.values)
            /\ value.v[12] = Sid(MatchingName(entry.matching.kind))
            /\ HasKey(value, 13) => value.v[13] = CborList(<<MinimalBytes(entry.matching.n)>>)
            /\ value.v[16] = Sid(IdentifierFor(ActionOf, entry.action))
<1> DEFINE value == WrittenCborEntry(entry)
           fixed == entry.length.kind = "fixed"
           universal == entry.field = Option /\ ~IsNamed(entry)
           keys == {1, 5, 7, 8, 12, 16}
              \cup (IF universal THEN {3, 4} ELSE {2})
              \cup {k \in {6} : entry.length.kind \in {"previous", "previous-bits"}}
              \cup {k \in {9} : entry.target.kind # "none"}
              \cup {k \in {13} : entry.matching.kind = "msb"}
           pairs == [k \in keys |->
       CASE k = 1 -> IntValue(entry.index)
         [] k = 2 -> Sid(CborName(entry))
         [] k = 3 -> Sid("space-id-coap")
         [] k = 4 -> IntValue(entry.number)
         [] k = 5 -> IF fixed THEN IntValue(entry.length.n)
                     ELSE [type |-> "tag45", v |-> Sid(LengthFunction(entry.length.kind))]
         [] k = 6 -> IntValue(entry.length.n)
         [] k = 7 -> Sid(DirectionName(entry.dir))
         [] k = 8 -> IntValue(entry.position)
         [] k = 9 -> CborList(entry.target.values)
         [] k = 12 -> Sid(MatchingName(entry.matching.kind))
         [] k = 13 -> CborList(<<MinimalBytes(entry.matching.n)>>)
         [] k = 16 -> Sid(IdentifierFor(ActionOf, entry.action))]
<1>1. value = Map(pairs)
  BY DEF WrittenCborEntry
<1>2. value.type = "map" /\ value.v = pairs
  BY <1>1 DEF Map
<1>3. DOMAIN pairs = keys
  OBVIOUS
<1>4. /\ \A k \in {1, 5, 7, 8, 12, 16} : k \in keys
      /\ 2 \in keys <=> ~universal
      /\ 3 \in keys <=> universal
      /\ 4 \in keys <=> universal
      /\ 6 \in keys <=> entry.length.kind \in {"previous", "previous-bits"}
      /\ 9 \in keys <=> entry.target.kind # "none"
      /\ 13 \in keys <=> entry.matching.kind = "msb"
  <2> HIDE DEF universal
  <2> QED OBVIOUS
<1> HIDE DEF keys, universal, value, fixed
<1>5. \A k : HasKey(value, k) <=> k \in keys
  BY <1>2, <1>3 DEF HasKey
<1>6. pairs[1] = IntValue(entry.index) /\ pairs[8] = IntValue(entry.position)
  BY <1>4
<1>7. pairs[5] = IF fixed THEN IntValue(entry.length.n)
                 ELSE [type |-> "tag45", v |-> Sid(LengthFunction(entry.length.kind))]
  BY <1>4
<1>8. pairs[7] = Sid(DirectionName(entry.dir))
      /\ pairs[12] = Sid(MatchingName(entry.matching.kind))
  BY <1>4
<1>9. pairs[16] = Sid(IdentifierFor(ActionOf, entry.action))
  BY <1>4
<1>10. 2 \in keys => pairs[2] = Sid(CborName(entry))
  OBVIOUS
<1>11. 3 \in keys => pairs[3] = Sid("space-id-coap")
  OBVIOUS
<1>12. 4 \in keys => pairs[4] = IntValue(entry.number)
  OBVIOUS
<1>13. 6 \in keys => pairs[6] = IntValue(entry.length.n)
  OBVIOUS
<1>14. 9 \in keys => pairs[9] = CborList(entry.target.values)
  OBVIOUS
<1>15. 13 \in keys => pairs[13] = CborList(<<MinimalBytes(entry.matching.n)>>)
  OBVIOUS
<1> HIDE DEF pairs
<1> QED BY <1>2, <1>4, <1>5, <1>6, <1>7, <1>8, <1>9, <1>10, <1>11, <1>12, <1>13, <1>14, <1>15
        DEF value, universal, fixed

(* A key under which an identity is written.                               *)
LEMMA IdentityBack ==
  ASSUME FilesReady, NEW value, NEW k, NEW i, Steady(i),
         HasKey(value, k), value.v[k] = Sid(i)
  PROVE  /\ GetInt(value, k) = Ok(Numbering(i))
         /\ GetIdentity(value, k) = IF Resolves(i) THEN i ELSE Absent
<1>1. Sid(i).type = "int" /\ Sid(i).v = Numbering(i)
  BY DEF Sid, IntValue
<1>2. GetInt(value, k) = Ok(Numbering(i))
  BY <1>1, NumberedBack DEF GetInt, AsInt
<1> QED BY <1>2, NumberedBack, Outcomes DEF GetIdentity

LEMMA IntBack ==
  ASSUME NEW value, NEW k, NEW n \in Nat, HasKey(value, k), value.v[k] = IntValue(n)
  PROVE  GetInt(value, k) = Ok(n)
BY DEF GetInt, AsInt, IntValue

LEMMA CborDirectionBack ==
  ASSUME FilesReady, NEW entry, entry.dir \in {"bi", "up", "down"},
         Steady(DirectionName(entry.dir))
  PROVE  CborDirection(WrittenCborEntry(entry)) =
           IF Resolves(DirectionName(entry.dir)) THEN Ok(entry.dir) ELSE Invalid
<1> DEFINE value == WrittenCborEntry(entry)
           name == DirectionName(entry.dir)
<1>1. HasKey(value, 7) /\ value.v[7] = Sid(name)
  BY CborKeys
<1> HIDE DEF value
<1>2. GetIdentity(value, 7) = IF Resolves(name) THEN name ELSE Absent
  BY <1>1, IdentityBack
<1>3. Absent \notin {"di-bidirectional", "di-up", "di-down"}
  BY KeysAssumption DEF Identities
<1>4. CASE Resolves(name)
  <2>1. GetIdentity(value, 7) = name
    BY <1>2, <1>4
  <2>2. CborDirection(value) = Ok(entry.dir)
    BY <2>1 DEF CborDirection, DirectionName
  <2> QED BY <1>4, <2>2 DEF value
<1>5. CASE ~Resolves(name)
  <2>1. GetIdentity(value, 7) = Absent
    BY <1>2, <1>5
  <2>2. CborDirection(value) = Invalid
    BY <1>3, <2>1 DEF CborDirection
  <2> QED BY <1>5, <2>2 DEF value
<1> QED BY <1>4, <1>5

LEMMA CborMatchingBack ==
  ASSUME FilesReady, NEW entry \in FieldEntries, Writable(entry),
         Steady(MatchingName(entry.matching.kind))
  PROVE  CborMatching(WrittenCborEntry(entry)) =
           IF Resolves(MatchingName(entry.matching.kind)) THEN Ok(entry.matching)
           ELSE Invalid
<1> DEFINE value == WrittenCborEntry(entry)
           kind == entry.matching.kind
           n == entry.matching.n
           name == MatchingName(kind)
           identity == GetIdentity(value, 12)
<1>1. /\ HasKey(value, 12) /\ value.v[12] = Sid(name)
      /\ HasKey(value, 13) <=> kind = "msb"
      /\ HasKey(value, 13) => value.v[13] = CborList(<<MinimalBytes(n)>>)
  BY CborKeys
<1> HIDE DEF value
<1>2. identity = IF Resolves(name) THEN name ELSE Absent
  BY <1>1, IdentityBack
<1>3. Absent \notin {"mo-equal", "mo-ignore", "mo-msb", "mo-match-mapping"}
  BY KeysAssumption DEF Identities
<1>4. /\ kind \in Operators /\ n \in Nat
      /\ entry.matching = [kind |-> kind, n |-> n]
      /\ kind # "msb" => n = 0
  BY DEF FieldEntries, Writable
<1>5. PICK b \in 1..8 : n < 256^b
  BY DEF Writable
<1>6. MinimalBytes(n) \in Bits /\ AsUsize(MinimalBytes(n)) = Ok(n)
  BY <1>4, <1>5, MinimalBack
<1> HIDE DEF identity, n, kind
<1>7. CASE Resolves(name) /\ kind # "msb"
  <2>1. identity = name
    BY <1>2, <1>7
  <2>2. CborMatching(value) = Ok([kind |-> kind, n |-> 0])
    BY <1>4, <1>7, <2>1 DEF CborMatching, MatchingName, Operators, identity
  <2> QED BY <1>4, <1>7, <2>2 DEF value, kind
<1>8. CASE Resolves(name) /\ kind = "msb"
  <2> DEFINE list == ValueList(CborList(<<MinimalBytes(n)>>))
             bytes == AsByteString(list.value[1])
             bits == AsUsize(bytes.value)
  <2>1. identity = "mo-msb"
    BY <1>2, <1>8 DEF MatchingName
  <2>2. list.ok /\ list.value # <<>> /\ bytes = Ok(MinimalBytes(n))
    BY <1>6, MsbBack
  <2>3. bytes.ok /\ bytes.value = MinimalBytes(n)
    BY <2>2, Outcomes
  <2>4. bits = Ok(n)
    BY <1>6, <2>3
  <2>5. bits.ok /\ bits.value = n
    BY <2>4, Outcomes
  <2>6. CborMatching(value) =
          IF ~list.ok THEN Invalid
          ELSE IF list.value = <<>> THEN Invalid
          ELSE IF ~bytes.ok THEN Invalid
          ELSE IF ~bits.ok THEN Invalid
          ELSE Ok([kind |-> "msb", n |-> bits.value])
    BY <1>1, <1>8, <2>1 DEF CborMatching, identity
  <2> HIDE DEF list, bytes, bits
  <2>7. CborMatching(value) = Ok([kind |-> kind, n |-> n])
    BY <1>8, <2>2, <2>3, <2>5, <2>6
  <2> QED BY <1>4, <1>8, <2>7 DEF value, kind
<1>9. CASE ~Resolves(name)
  <2>1. identity = Absent
    BY <1>2, <1>9
  <2>2. CborMatching(value) = Invalid
    BY <1>3, <2>1 DEF CborMatching, identity
  <2> QED BY <1>9, <2>2 DEF value, kind
<1> QED BY <1>7, <1>8, <1>9

LEMMA CborActionBack ==
  ASSUME FilesReady, NEW entry, entry.action \in Actions,
         Steady(IdentifierFor(ActionOf, entry.action))
  PROVE  CborAction(WrittenCborEntry(entry)) =
           IF Resolves(IdentifierFor(ActionOf, entry.action)) THEN Ok(entry.action)
           ELSE Invalid
<1> DEFINE value == WrittenCborEntry(entry)
           name == IdentifierFor(ActionOf, entry.action)
<1>1. HasKey(value, 16) /\ value.v[16] = Sid(name)
  BY CborKeys
<1> HIDE DEF value
<1>2. GetIdentity(value, 16) = IF Resolves(name) THEN name ELSE Absent
  BY <1>1, IdentityBack
<1>3. Absent \notin DOMAIN ActionOf
  BY KeysAssumption DEF Identities
<1>4. name \in DOMAIN ActionOf /\ ActionOf[name] = entry.action
  <2>1. \E i \in DOMAIN ActionOf : ActionOf[i] = entry.action
    BY OneIdentity
  <2> QED BY <2>1 DEF IdentifierFor
<1> HIDE DEF name
<1>5. CborAction(value) = IF Resolves(name) THEN Ok(entry.action) ELSE Invalid
  BY <1>2, <1>3, <1>4 DEF CborAction
<1> QED BY <1>5 DEF value, name

(* Which field an entry is about.                                          *)
FieldReference(entry) ==
  IF entry.field = Option /\ ~IsNamed(entry) THEN "space-id-coap" ELSE CborName(entry)

CborRefKnows(entry) ==
  entry.field \in FieldNames \cup {Option} /\ Resolves(FieldReference(entry))

LEMMA CborRefBack ==
  ASSUME FilesReady, NEW entry \in FieldEntries, Writable(entry),
         Steady(FieldReference(entry))
  PROVE  CborFieldRef(WrittenCborEntry(entry)) =
           IF CborRefKnows(entry)
           THEN Ok([field |-> entry.field, number |-> entry.number]) ELSE Invalid
<1> DEFINE value == WrittenCborEntry(entry)
           universal == entry.field = Option /\ ~IsNamed(entry)
           name == CborName(entry)
<1>1. /\ HasKey(value, 2) <=> ~universal
      /\ HasKey(value, 3) <=> universal
      /\ HasKey(value, 4) <=> universal
      /\ ~universal => value.v[2] = Sid(name)
      /\ universal => /\ value.v[3] = Sid("space-id-coap")
                      /\ value.v[4] = IntValue(entry.number)
  BY CborKeys
<1>2. entry.number \in Nat
  BY DEF FieldEntries
<1>3. /\ Absent \notin FieldNames
      /\ Absent \notin {"coap-option-uri-host", "coap-option-uri-path", "space-id-coap"}
  BY KeysAssumption DEF Identities
<1> HIDE DEF value
<1>r. /\ universal => FieldReference(entry) = "space-id-coap"
      /\ ~universal => FieldReference(entry) = name
  BY DEF FieldReference
<1>4. CASE universal
  <2> DEFINE known == Resolves("space-id-coap")
  <2>1. GetIdentity(value, 3) = IF known THEN "space-id-coap" ELSE Absent
    BY <1>1, <1>4, <1>r, IdentityBack
  <2>2. GetInt(value, 4) = Ok(entry.number)
    BY <1>1, <1>2, <1>4, IntBack
  <2>3. CborFieldRef(value) =
          IF GetIdentity(value, 3) = "space-id-coap" /\ GetInt(value, 4).ok
          THEN Ok([field |-> Option, number |-> GetInt(value, 4).value])
          ELSE Invalid
    <3> DEFINE has == <<HasKey(value, 2), HasKey(value, 3), HasKey(value, 4)>>
    <3>1. has = <<FALSE, TRUE, TRUE>>
      <4>1. HasKey(value, 2) = FALSE /\ HasKey(value, 3) = TRUE /\ HasKey(value, 4) = TRUE
        BY <1>1, <1>4 DEF HasKey
      <4> QED BY <4>1
    <3>2. has # <<TRUE, FALSE, FALSE>>
      BY <3>1
    <3> HIDE DEF has
    <3> QED BY <3>1, <3>2 DEF CborFieldRef, has
  <2>4. CborRefKnows(entry) <=> known
    BY <1>4, <1>r DEF CborRefKnows
  <2>5. CborFieldRef(value) =
          IF known THEN Ok([field |-> Option, number |-> entry.number]) ELSE Invalid
    BY <1>3, <2>1, <2>2, <2>3, Outcomes
  <2> QED BY <1>4, <2>4, <2>5 DEF value
<1>5. CASE ~universal
  <2>1. GetIdentity(value, 2) = IF Resolves(name) THEN name ELSE Absent
    BY <1>1, <1>5, <1>r, IdentityBack
  <2>2. CborFieldRef(value) = FieldRefOf(GetIdentity(value, 2))
    <3> DEFINE has == <<HasKey(value, 2), HasKey(value, 3), HasKey(value, 4)>>
    <3>1. has = <<TRUE, FALSE, FALSE>>
      <4>1. HasKey(value, 2) = TRUE /\ HasKey(value, 3) = FALSE /\ HasKey(value, 4) = FALSE
        BY <1>1, <1>5 DEF HasKey
      <4> QED BY <4>1
    <3> HIDE DEF has
    <3> QED BY <3>1 DEF CborFieldRef, has
  <2>3. FieldRefOf(Absent) = Invalid
    BY <1>3 DEF FieldRefOf
  <2>4. CASE IsNamed(entry)
    <3>1. /\ entry.field = Option /\ entry.number \in {3, 11}
          /\ name = OptionName(entry)
          /\ FieldRefOf(name) = Ok([field |-> Option, number |-> entry.number])
      BY <2>4 DEF IsNamed, OptionName, CborName, FieldRefOf, FieldNames, Option, Marker, Payload
    <3>2. CborRefKnows(entry) <=> Resolves(name)
      BY <1>5, <1>r, <3>1 DEF CborRefKnows
    <3> HIDE DEF name
    <3> QED BY <2>1, <2>2, <2>3, <3>1, <3>2 DEF value
  <2>5. CASE ~IsNamed(entry)
    <3>1. entry.field # Option /\ entry.number = 0 /\ name = entry.field
      BY <1>5, <2>5 DEF Writable, CborName
    <3>2. FieldRefOf(name) =
            IF name \in FieldNames THEN Ok([field |-> name, number |-> 0]) ELSE Invalid
      BY <3>1 DEF FieldRefOf, Writable
    <3>3. CborRefKnows(entry) <=> name \in FieldNames /\ Resolves(name)
      BY <1>5, <1>r, <3>1 DEF CborRefKnows
    <3> HIDE DEF name
    <3> QED BY <2>1, <2>2, <2>3, <3>1, <3>2, <3>3 DEF value
  <2> QED BY <2>4, <2>5
<1> QED BY <1>4, <1>5

(* What a CBOR file says of an entry.                                      *)
LengthUnderstood(entry) ==
  IF entry.length.kind = "fixed" \/ Resolves(LengthFunction(entry.length.kind))
  THEN entry.length
  ELSE [kind |-> "function", n |-> Numbering(LengthFunction(entry.length.kind))]

TargetUnderstood(entry) ==
  LET values == entry.target.values
  IN [kind |-> IF values = <<>> THEN "none"
               ELSE IF \/ entry.matching.kind = "mapping" \/ entry.action = "mapping-sent"
                       \/ Len(values) > 1
                    THEN "mapping" ELSE "bytes",
      values |-> values]

LEMMA UnderstoodParts ==
  ASSUME NEW entry \in FieldEntries
  PROVE  /\ Understood(entry) =
              [field |-> entry.field, number |-> entry.number,
               index |-> entry.index, position |-> entry.position,
               dir |-> entry.dir, length |-> LengthUnderstood(entry),
               target |-> TargetUnderstood(entry), matching |-> entry.matching,
               action |-> entry.action]
         /\ Understood(entry).index = entry.index
         /\ CborKnows(Understood(entry)) <=> CborKnows(entry)
<1> DEFINE whole == [field |-> entry.field, number |-> entry.number,
               index |-> entry.index, position |-> entry.position,
               dir |-> entry.dir, length |-> LengthUnderstood(entry),
               target |-> TargetUnderstood(entry), matching |-> entry.matching,
               action |-> entry.action]
<1>1. Understood(entry) =
        [entry EXCEPT !.target = TargetUnderstood(entry),
                      !.length = LengthUnderstood(entry)]
  <2>1. entry.length = entry.length
    OBVIOUS
  <2>2. DOMAIN entry = {"field", "number", "index", "position", "dir", "length",
                        "target", "matching", "action"}
    BY DEF FieldEntries
  <2> QED BY <2>2 DEF Understood, TargetUnderstood, LengthUnderstood
<1>2. Understood(entry) = whole
  <2> DEFINE t == TargetUnderstood(entry)
             l == LengthUnderstood(entry)
  <2> HIDE DEF t, l
  <2>1. [entry EXCEPT !.target = t, !.length = l] =
          [field |-> entry.field, number |-> entry.number,
           index |-> entry.index, position |-> entry.position,
           dir |-> entry.dir, length |-> l, target |-> t,
           matching |-> entry.matching, action |-> entry.action]
    <3> DEFINE x == [entry EXCEPT !.target = t]
    <3>1. entry = [field |-> entry.field, number |-> entry.number,
                   index |-> entry.index, position |-> entry.position,
                   dir |-> entry.dir, length |-> entry.length,
                   target |-> entry.target, matching |-> entry.matching,
                   action |-> entry.action]
      BY DEF FieldEntries
    <3>2. x = [field |-> entry.field, number |-> entry.number,
                   index |-> entry.index, position |-> entry.position,
                   dir |-> entry.dir, length |-> entry.length,
                   target |-> t, matching |-> entry.matching,
                   action |-> entry.action]
      BY <3>1
    <3> HIDE DEF x
    <3>3. [x EXCEPT !.length = l] = [field |-> entry.field, number |-> entry.number,
                   index |-> entry.index, position |-> entry.position,
                   dir |-> entry.dir, length |-> l,
                   target |-> t, matching |-> entry.matching,
                   action |-> entry.action]
      BY <3>2
    <3> QED BY <3>3 DEF x
  <2> QED BY <1>1, <2>1 DEF t, l
<1>3. /\ whole.field = entry.field /\ whole.number = entry.number
      /\ whole.index = entry.index /\ whole.dir = entry.dir
      /\ whole.matching = entry.matching /\ whole.action = entry.action
  OBVIOUS
<1> HIDE DEF whole
<1>4. CborKnows(whole) <=> CborKnows(entry)
  BY <1>3 DEF CborKnows, References, CborName, IsNamed, OptionName
<1> QED BY <1>2, <1>3, <1>4 DEF whole

LEMMA CborLengthBack ==
  ASSUME FilesReady, NEW entry \in FieldEntries, Writable(entry),
         \A i \in LengthReferences(entry) : Steady(i)
  PROVE  CborLength(WrittenCborEntry(entry)) = Ok(LengthUnderstood(entry))
<1> DEFINE value == WrittenCborEntry(entry)
           kind == entry.length.kind
           n == entry.length.n
           name == LengthFunction(kind)
           given == Get(value, 5)
           sid == AsInt(given.value.v)
           function == IdentifierOf(sid.value)
           parameter == LengthParameter(value)
           from(k) == IF parameter.ok THEN Ok([kind |-> k, n |-> parameter.value])
                      ELSE parameter
<1>1. /\ HasKey(value, 5)
      /\ value.v[5] = IF kind = "fixed" THEN IntValue(n)
                      ELSE [type |-> "tag45", v |-> Sid(name)]
      /\ HasKey(value, 6) <=> kind \in {"previous", "previous-bits"}
      /\ HasKey(value, 6) => value.v[6] = IntValue(n)
  BY CborKeys
<1>2. /\ kind \in LengthKinds \ {"function"} /\ n \in Nat
      /\ entry.length = [kind |-> kind, n |-> n]
      /\ kind \in {"token", "bytes", "bits"} => n = 0
  BY DEF FieldEntries, Writable
<1>3. CborLength(value) =
        IF ~given.ok THEN given
        ELSE IF given.value.type = "int"
             THEN IF given.value.v \in Nat THEN Ok([kind |-> "fixed", n |-> given.value.v])
                  ELSE Invalid
        ELSE IF given.value.type # "tag45" THEN Invalid
        ELSE IF ~sid.ok THEN Invalid
        ELSE CASE function = "fl-token-length" -> Ok([kind |-> "token", n |-> 0])
               [] function = "fl-variable" -> Ok([kind |-> "bytes", n |-> 0])
               [] function = "fl-variable-bits" -> Ok([kind |-> "bits", n |-> 0])
               [] function = "fl-length-bytes" -> from("previous")
               [] function = "fl-length-bits" -> from("previous-bits")
               [] OTHER -> Ok([kind |-> "function", n |-> sid.value])
  BY DEF CborLength
<1>4. given = Ok(value.v[5])
  BY <1>1 DEF Get
<1>5. given.ok /\ given.value = value.v[5]
  BY <1>4, Outcomes
<1>s. kind # "fixed" => Steady(name)
  BY DEF LengthReferences
<1> HIDE DEF value, kind, n, given
<1>6. CASE kind = "fixed"
  <2>1. given.value.type = "int" /\ given.value.v = n
    BY <1>1, <1>5, <1>6 DEF IntValue
  <2>2. CborLength(value) = Ok([kind |-> "fixed", n |-> n])
    BY <1>2, <1>3, <1>5, <2>1
  <2> QED BY <1>2, <1>6, <2>2 DEF LengthUnderstood, value, kind
<1>7. CASE kind # "fixed"
  <2>1. given.value.type = "tag45" /\ given.value.v = Sid(name)
    BY <1>1, <1>5, <1>7
  <2>2. sid = Ok(Numbering(name))
    BY <1>7, <1>s, <2>1, NumberedBack DEF AsInt, Sid, IntValue
  <2>3. sid.ok /\ sid.value = Numbering(name)
    BY <2>2, Outcomes
  <2> HIDE DEF sid
  <2>4. CborLength(value) =
          CASE function = "fl-token-length" -> Ok([kind |-> "token", n |-> 0])
            [] function = "fl-variable" -> Ok([kind |-> "bytes", n |-> 0])
            [] function = "fl-variable-bits" -> Ok([kind |-> "bits", n |-> 0])
            [] function = "fl-length-bytes" -> from("previous")
            [] function = "fl-length-bits" -> from("previous-bits")
            [] OTHER -> Ok([kind |-> "function", n |-> sid.value])
    BY <1>3, <1>5, <2>1, <2>3
  <2>5. CASE Resolves(name)
    <3>1. function = name
      BY <1>7, <1>s, <2>3, <2>5, NumberedBack
    <3>2. kind \in {"previous", "previous-bits"} => parameter = Ok(n)
      <4> SUFFICES ASSUME kind \in {"previous", "previous-bits"} PROVE parameter = Ok(n)
        OBVIOUS
      <4>1. HasKey(value, 6) /\ value.v[6] = IntValue(n)
        BY <1>1
      <4>2. GetInt(value, 6) = Ok(n)
        BY <1>2, <4>1, IntBack
      <4>3. value.v[6].type # "bytes"
        BY <4>1 DEF IntValue
      <4> QED BY <4>1, <4>2, <4>3 DEF LengthParameter
    <3>3. kind \in {"previous", "previous-bits"} => from(kind) = Ok([kind |-> kind, n |-> n])
      BY <3>2, Outcomes
    <3> HIDE DEF function, parameter, from
    <3>4. CborLength(value) = Ok([kind |-> kind, n |-> n])
      BY <1>2, <1>7, <2>4, <3>1, <3>3 DEF LengthFunction, LengthKinds
    <3> QED BY <1>2, <2>5, <3>4 DEF LengthUnderstood, value, kind
  <2>6. CASE ~Resolves(name)
    <3>1. function = Absent /\ sid.value = Numbering(name)
      BY <1>7, <1>s, <2>3, <2>6, NumberedBack
    <3>2. Absent \notin {"fl-token-length", "fl-variable", "fl-variable-bits",
                          "fl-length-bytes", "fl-length-bits"}
      BY KeysAssumption DEF Identities
    <3> HIDE DEF function, parameter, from
    <3>3. CborLength(value) = Ok([kind |-> "function", n |-> Numbering(name)])
      BY <2>4, <3>1, <3>2
    <3> QED BY <1>7, <2>6, <3>3 DEF LengthUnderstood, value, kind
  <2> QED BY <2>5, <2>6
<1> QED BY <1>6, <1>7

LEMMA CborTargetBack ==
  ASSUME NEW entry \in FieldEntries, Writable(entry)
  PROVE  CborTarget(WrittenCborEntry(entry), Ok(entry.matching), Ok(entry.action))
           = Ok(TargetUnderstood(entry))
<1> DEFINE value == WrittenCborEntry(entry)
           values == entry.target.values
           n == Len(values)
           list == ByteStrings(value.v[9])
           mapped == \/ Ok(entry.matching).value.kind = "mapping"
                     \/ Ok(entry.action).value = "mapping-sent"
           none == Ok([kind |-> "none", values |-> <<>>])
<1>1. /\ HasKey(value, 9) <=> entry.target.kind # "none"
      /\ HasKey(value, 9) => value.v[9] = CborList(values)
  BY CborKeys
<1>2. n \in Nat /\ values = [k \in 1..n |-> values[k]]
      /\ (\A k \in 1..n : values[k] \in Bits)
      /\ (entry.target.kind = "none" => values = <<>>)
  <2>1. values \in Seq(Bits)
    BY DEF FieldEntries
  <2> HIDE DEF values
  <2> DEFINE B == Bits
  <2> HIDE DEF B
  <2>2. values \in Seq(B)
    BY <2>1 DEF B
  <2>3. n \in Nat /\ values = [k \in 1..n |-> values[k]]
        /\ \A k \in 1..n : values[k] \in B
    BY <2>2
  <2> QED BY <2>3 DEF Writable, values, B
<1>3. mapped <=> entry.matching.kind = "mapping" \/ entry.action = "mapping-sent"
  BY Outcomes
<1>4. CborTarget(value, Ok(entry.matching), Ok(entry.action)) =
        CASE ~HasKey(value, 9) -> none
          [] HasKey(value, 9) /\ value.v[9].type = "null" -> none
          [] OTHER -> IF ~list.ok THEN Invalid
                      ELSE IF list.value = <<>> THEN none
                      ELSE IF mapped \/ Len(list.value) > 1
                           THEN Ok([kind |-> "mapping", values |-> list.value])
                           ELSE Ok([kind |-> "bytes", values |-> list.value])
  BY DEF CborTarget
<1> HIDE DEF n, value, mapped
<1>5. CASE HasKey(value, 9)
  <2>1. value.v[9].type # "null"
    BY <1>1, <1>5 DEF CborList, Array
  <2>2. list = Ok(values)
    <3> HIDE DEF values
    <3> QED BY <1>1, <1>2, <1>5, BytesListBack
  <2>3. list.ok /\ list.value = values
    BY <2>2, Outcomes
  <2> HIDE DEF list, values
  <2>4. CborTarget(value, Ok(entry.matching), Ok(entry.action)) =
          IF values = <<>> THEN Ok([kind |-> "none", values |-> values])
          ELSE IF mapped \/ Len(values) > 1
               THEN Ok([kind |-> "mapping", values |-> values])
               ELSE Ok([kind |-> "bytes", values |-> values])
    BY <1>4, <1>5, <2>1, <2>3
  <2> QED BY <1>3, <2>4 DEF TargetUnderstood, value, values
<1>6. CASE ~HasKey(value, 9)
  <2>1. values = <<>>
    BY <1>1, <1>2, <1>6
  <2>2. CborTarget(value, Ok(entry.matching), Ok(entry.action)) = none
    BY <1>4, <1>6
  <2> HIDE DEF values
  <2> QED BY <2>1, <2>2 DEF TargetUnderstood, value, values
<1> QED BY <1>5, <1>6

(* An entry comes back as it is understood, or it is refused.              *)
LEMMA CborEntryBack ==
  ASSUME FilesReady, NEW entry \in FieldEntries, Writable(entry),
         \A i \in References(entry) \cup LengthReferences(entry) : Steady(i)
  PROVE  CborEntry(WrittenCborEntry(entry)) =
           IF CborKnows(entry) /\ ValidEntry(Understood(entry))
           THEN Ok(Understood(entry)) ELSE Invalid
<1> DEFINE value == WrittenCborEntry(entry)
           ref == CborFieldRef(value)
           index == GetInt(value, 1)
           position == GetInt(value, 8)
           dir == CborDirection(value)
           length == CborLength(value)
           matching == CborMatching(value)
           action == CborAction(value)
           target == IF matching.ok /\ action.ok
                     THEN CborTarget(value, matching, action) ELSE Invalid
           understood == Understood(entry)
           parts == /\ ref.ok /\ index.ok /\ position.ok /\ dir.ok /\ length.ok
                    /\ target.ok /\ matching.ok /\ action.ok
           made == [field |-> ref.value.field, number |-> ref.value.number,
                    index |-> index.value, position |-> position.value,
                    dir |-> dir.value, length |-> length.value,
                    target |-> target.value, matching |-> matching.value,
                    action |-> action.value]
<1>1. /\ entry.action \in Actions /\ entry.dir \in {"bi", "up", "down"}
      /\ entry.index \in Nat /\ entry.position \in Nat
  BY DEF FieldEntries
<1>s. /\ Steady(FieldReference(entry)) /\ Steady(DirectionName(entry.dir))
      /\ Steady(MatchingName(entry.matching.kind))
      /\ Steady(IdentifierFor(ActionOf, entry.action))
      /\ \A i \in LengthReferences(entry) : Steady(i)
  BY DEF References, FieldReference
<1>2. ref = IF CborRefKnows(entry)
            THEN Ok([field |-> entry.field, number |-> entry.number]) ELSE Invalid
  BY <1>s, CborRefBack
<1>3. index = Ok(entry.index) /\ position = Ok(entry.position)
  <2>1. /\ HasKey(value, 1) /\ value.v[1] = IntValue(entry.index)
        /\ HasKey(value, 8) /\ value.v[8] = IntValue(entry.position)
    BY CborKeys
  <2> HIDE DEF value
  <2> QED BY <1>1, <2>1, IntBack
<1>4. dir = IF Resolves(DirectionName(entry.dir)) THEN Ok(entry.dir) ELSE Invalid
  BY <1>1, <1>s, CborDirectionBack
<1>5. length = Ok(LengthUnderstood(entry))
  BY <1>s, CborLengthBack
<1>6. matching = IF Resolves(MatchingName(entry.matching.kind)) THEN Ok(entry.matching)
                 ELSE Invalid
  BY <1>s, CborMatchingBack
<1>7. action = IF Resolves(IdentifierFor(ActionOf, entry.action)) THEN Ok(entry.action)
               ELSE Invalid
  BY <1>1, <1>s, CborActionBack
<1>8. ~Invalid.ok /\ \A v : Ok(v).ok /\ Ok(v).value = v
  BY Outcomes DEF Invalid
<1>9. target = IF matching.ok /\ action.ok THEN Ok(TargetUnderstood(entry)) ELSE Invalid
  <2>1. CborTarget(value, Ok(entry.matching), Ok(entry.action)) = Ok(TargetUnderstood(entry))
    BY CborTargetBack
  <2>2. matching.ok => matching = Ok(entry.matching)
    BY <1>6, <1>8
  <2>3. action.ok => action = Ok(entry.action)
    BY <1>7, <1>8
  <2> HIDE DEF value, matching, action
  <2> QED BY <2>1, <2>2, <2>3
<1>10. CborEntry(value) = IF parts THEN IF ValidEntry(made) THEN Ok(made) ELSE Invalid
                          ELSE Invalid
  BY DEF CborEntry, Entry
<1> HIDE DEF value, ref, index, position, dir, length, matching, action, target
<1>11. CborKnows(entry) <=>
         /\ CborRefKnows(entry)
         /\ Resolves(DirectionName(entry.dir))
         /\ Resolves(MatchingName(entry.matching.kind))
         /\ Resolves(IdentifierFor(ActionOf, entry.action))
  BY DEF CborKnows, References, FieldReference, CborRefKnows
<1>12. parts <=> CborKnows(entry)
  BY <1>2, <1>3, <1>4, <1>5, <1>6, <1>7, <1>8, <1>9, <1>11
<1>13. ASSUME CborKnows(entry) PROVE made = understood
  <2>1. ref.value = [field |-> entry.field, number |-> entry.number]
    BY <1>2, <1>8, <1>11, <1>13
  <2>2. ref.value.field = entry.field /\ ref.value.number = entry.number
    BY <2>1
  <2>3. /\ index.value = entry.index /\ position.value = entry.position
        /\ length.value = LengthUnderstood(entry)
    BY <1>3, <1>5, <1>8
  <2>4. /\ dir.value = entry.dir /\ matching.value = entry.matching /\ matching.ok
        /\ action.value = entry.action /\ action.ok
    BY <1>4, <1>6, <1>7, <1>8, <1>11, <1>13
  <2>5. target.value = TargetUnderstood(entry)
    BY <1>8, <1>9, <2>4
  <2> QED BY <2>2, <2>3, <2>4, <2>5, UnderstoodParts
<1> HIDE DEF parts, made, understood
<1>14. CborEntry(value) = IF CborKnows(entry) /\ ValidEntry(understood)
                          THEN Ok(understood) ELSE Invalid
  BY <1>10, <1>12, <1>13
<1> QED BY <1>14 DEF value, understood

(* A spoilt entry is refused.                                              *)
LEMMA CborPartsNeeded ==
  ASSUME NEW value,
         \/ ~CborFieldRef(value).ok \/ ~GetInt(value, 1).ok \/ ~GetInt(value, 8).ok
         \/ ~CborDirection(value).ok \/ ~CborLength(value).ok
         \/ ~CborMatching(value).ok \/ ~CborAction(value).ok
         \/ \A matching, action : ~CborTarget(value, matching, action).ok
  PROVE  ~CborEntry(value).ok
<1> DEFINE matching == CborMatching(value)
           action == CborAction(value)
           target == IF matching.ok /\ action.ok
                     THEN CborTarget(value, matching, action) ELSE Invalid
           ref == CborFieldRef(value)
           index == GetInt(value, 1)
           position == GetInt(value, 8)
           dir == CborDirection(value)
           length == CborLength(value)
<1>1. ~Invalid.ok
  BY Outcomes DEF Invalid
<1>2. CborEntry(value) = Entry(ref, index, position, dir, length, target, matching, action)
  BY DEF CborEntry
<1>3. \/ ~ref.ok \/ ~index.ok \/ ~position.ok \/ ~dir.ok \/ ~length.ok
      \/ ~target.ok \/ ~matching.ok \/ ~action.ok
  BY <1>1
<1> HIDE DEF ref, index, position, dir, length, target, matching, action
<1>4. Entry(ref, index, position, dir, length, target, matching, action) = Invalid
  BY <1>3 DEF Entry
<1> QED BY <1>1, <1>2, <1>4

LEMMA KeyMissing ==
  ASSUME NEW value, NEW key \in {1, 5, 7, 8, 12, 16}, ~HasKey(value, key)
  PROVE  ~CborEntry(value).ok
<1>1. ~Invalid.ok
  BY Outcomes DEF Invalid
<1>2. GetInt(value, key) = Invalid
  BY DEF GetInt
<1>3. GetIdentity(value, key) = Absent
  BY <1>1, <1>2 DEF GetIdentity
<1>4. Absent \notin Identities
  BY KeysAssumption
<1>5. CASE key \in {1, 8}
  BY <1>1, <1>2, <1>5, CborPartsNeeded
<1>6. CASE key = 5
  <2>1. Get(value, 5) = Invalid
    BY <1>6 DEF Get
  <2>2. CborLength(value) = Invalid
    BY <1>1, <2>1 DEF CborLength
  <2> QED BY <1>1, <2>2, CborPartsNeeded
<1>7. CASE key = 7
  <2>1. CborDirection(value) = Invalid
    BY <1>3, <1>4, <1>7 DEF CborDirection, Identities
  <2> QED BY <1>1, <2>1, CborPartsNeeded
<1>8. CASE key = 12
  <2>1. Absent \notin {"mo-equal", "mo-ignore", "mo-msb", "mo-match-mapping"}
    BY <1>4 DEF Identities
  <2>2. CborMatching(value) = Invalid
    BY <1>3, <1>8, <2>1 DEF CborMatching
  <2> QED BY <1>1, <2>2, CborPartsNeeded
<1>9. CASE key = 16
  <2>1. Absent \notin DOMAIN ActionOf
    BY <1>4 DEF Identities
  <2>2. CborAction(value) = Invalid
    BY <1>3, <1>9, <2>1 DEF CborAction
  <2> QED BY <1>1, <2>2, CborPartsNeeded
<1> QED BY <1>5, <1>6, <1>7, <1>8, <1>9

LEMMA ListWrong ==
  ASSUME NEW value, HasKey(value, 9), value.v[9].type # "null",
         ValueList(value.v[9]) = Invalid
  PROVE  ~CborEntry(value).ok
<1>1. ~Invalid.ok
  BY Outcomes DEF Invalid
<1>2. ByteStrings(value.v[9]) = Invalid
  BY <1>1 DEF ByteStrings
<1>3. \A matching, action : CborTarget(value, matching, action) = Invalid
  BY <1>1, <1>2 DEF CborTarget
<1> QED BY <1>1, <1>3, CborPartsNeeded

LEMMA NegativeRefused == ~ByteStrings(Array(<<Indexed(0, IntValue(-1))>>)).ok
<1> DEFINE value == Array(<<Indexed(0, IntValue(-1))>>)
           list == <<Indexed(0, IntValue(-1))>>
           read == ValueList(value)
           results == [k \in 1..Len(read.value) |-> AsByteString(read.value[k])]
<1>1. ~Invalid.ok
  BY Outcomes DEF Invalid
<1>2. value.type = "array" /\ value.v = list /\ Len(list) = 1
      /\ list[1] = Indexed(0, IntValue(-1))
  BY DEF Array
<1>3. list[1].v[2] = IntValue(-1)
  BY <1>2 DEF Indexed, Map
<1>4. CASE read.ok
  <2>1. read = Ok([k \in 1..Len(value.v) |->
                     value.v[CHOOSE j \in 1..Len(value.v) : value.v[j].v[1].v = k - 1].v[2]])
    BY <1>1, <1>4 DEF ValueList
  <2> DEFINE at(k) == CHOOSE j \in 1..Len(list) : list[j].v[1].v = k - 1
             picked == [k \in 1..Len(list) |-> list[at(k)].v[2]]
             from(v) == Ok([k \in 1..Len(v) |->
                              v[CHOOSE j \in 1..Len(v) : v[j].v[1].v = k - 1].v[2]])
  <2>2. read = Ok(picked)
    <3>1. from(list) = Ok(picked)
      OBVIOUS
    <3>2. read = from(value.v)
      BY <2>1
    <3> HIDE DEF from, list, value, read, picked
    <3> QED BY <1>2, <3>1, <3>2
  <2>3. at(1) = 1
    <3>1. list[1].v[1].v = 0
      BY <1>2 DEF Indexed, Map, IntValue
    <3> HIDE DEF list
    <3>2. \E j \in 1..Len(list) : list[j].v[1].v = 1 - 1
      BY <1>2, <3>1
    <3>3. at(1) \in 1..Len(list)
      BY <3>2
    <3> QED BY <1>2, <3>3
  <2> HIDE DEF at, list
  <2>4. Len(picked) = 1 /\ picked[1] = IntValue(-1)
    BY <1>2, <1>3, <2>3
  <2>5. read.value = picked
    BY <2>2, Outcomes
  <2> HIDE DEF picked, read
  <2>6. results = [k \in 1..1 |-> AsByteString(picked[k])]
    BY <2>4, <2>5
  <2>7. results = [k \in 1..1 |-> results[k]] /\ results[1] = AsByteString(IntValue(-1))
    BY <2>4, <2>6
  <2>8. AsByteString(IntValue(-1)) = Invalid
    BY DEF AsByteString, IntValue
  <2> HIDE DEF results
  <2>9. 1 \in Nat /\ 1 \in 1..1 /\ ~results[1].ok
    BY <1>1, <2>7, <2>8
  <2>10. ~AllOk(results).ok
    BY <2>7, <2>9, OneRefused
  <2> QED BY <1>4, <2>10 DEF ByteStrings, read, results, value
<1>5. CASE ~read.ok
  BY <1>1, <1>5 DEF ByteStrings
<1> QED BY <1>4, <1>5

LEMMA SpoiltCborRefused ==
  ASSUME document.defect \in CborDefects, document.defect.what # "no-entries",
         NEW entry, document.defect.what = "both" => entry.field # Option
  PROVE  ~CborEntry(SpoiltCbor(WrittenCborEntry(entry))).ok
<1> DEFINE written == WrittenCborEntry(entry)
           spoilt == SpoiltCbor(written)
           what == document.defect.what
           key == document.defect.key
           list(index) == Array(<<Indexed(0, ByteValue(Zeros(8))),
                                  Indexed(index, ByteValue(Zeros(8)))>>)
           with(at, value) == Map([k \in DOMAIN written.v \cup {at} |->
                                     IF k = at THEN value ELSE written.v[k]])
<1>1. /\ document.defect.format = "cbor"
      /\ what \in {"missing", "gap", "twice", "no-list", "both", "negative",
                   "negative-value"}
      /\ what = "negative" => key \in {1, 5, 8}
      /\ what = "missing" => key \in {1, 5, 7, 8, 12, 16}
      /\ what = "both" => key \in {3, 4}
  BY DEF CborDefects
<1>2. /\ what = "missing" =>
           spoilt = Map([k \in DOMAIN written.v \ {key} |-> written.v[k]])
      /\ what = "gap" => spoilt = with(9, list(2))
      /\ what = "twice" => spoilt = with(9, list(0))
      /\ what = "no-list" => spoilt = with(9, IntValue(0))
      /\ what = "both" => spoilt = with(key, IntValue(1))
      /\ what = "negative" => spoilt = with(key, IntValue(-1))
      /\ what = "negative-value" =>
           spoilt = with(9, Array(<<Indexed(0, IntValue(-1))>>))
  BY <1>1 DEF SpoiltCbor
<1>3. ~Invalid.ok
  BY Outcomes DEF Invalid
<1>4. ASSUME NEW at, NEW value
      PROVE  /\ HasKey(with(at, value), at) /\ with(at, value).v[at] = value
             /\ with(at, value).type = "map"
             /\ DOMAIN with(at, value).v = DOMAIN written.v \cup {at}
  BY DEF HasKey, Map
<1>w. written.type = "map"
  BY DEF WrittenCborEntry, Map
<1> HIDE DEF spoilt, with, what, key
<1>5. CASE what = "missing"
  <2>1. ~HasKey(spoilt, key)
    BY <1>2, <1>5 DEF HasKey, Map
  <2> QED BY <1>1, <1>5, <2>1, KeyMissing DEF spoilt
<1>6. ASSUME NEW index \in {0, 2} PROVE ValueList(list(index)) = Invalid
  <2> DEFINE l == list(index).v
  <2>1. Len(l) = 2 /\ l[1] = Indexed(0, ByteValue(Zeros(8)))
        /\ l[2] = Indexed(index, ByteValue(Zeros(8)))
    BY DEF Array
  <2>2. l[1].v[1].v = 0 /\ l[2].v[1].v = index
    BY <2>1 DEF Indexed, Map, IntValue
  <2> HIDE DEF l
  <2>3. {l[k].v[1].v : k \in 1..Len(l)} # 0..(Len(l) - 1)
    <3>1. 1 \in 0..(Len(l) - 1)
      BY <2>1
    <3>2. \A k \in 1..Len(l) : l[k].v[1].v # 1
      BY <2>1, <2>2
    <3> QED BY <3>1, <3>2
  <2> QED BY <2>3 DEF ValueList, l
<1>7. CASE what \in {"gap", "twice"}
  <2>1. PICK index \in {0, 2} : spoilt = with(9, list(index))
    BY <1>2, <1>7
  <2>2. HasKey(spoilt, 9) /\ spoilt.v[9] = list(index)
    BY <1>4, <2>1
  <2>3. spoilt.v[9].type # "null"
    BY <2>2 DEF Array
  <2>4. ValueList(spoilt.v[9]) = Invalid
    BY <1>6, <2>2
  <2> QED BY <2>2, <2>3, <2>4, ListWrong DEF spoilt
<1>8. CASE what = "no-list"
  <2>1. HasKey(spoilt, 9) /\ spoilt.v[9] = IntValue(0)
    BY <1>2, <1>4, <1>8
  <2>2. spoilt.v[9].type = "int"
    BY <2>1 DEF IntValue
  <2>3. ValueList(spoilt.v[9]) = Invalid
    BY <2>2 DEF ValueList
  <2> QED BY <2>1, <2>2, <2>3, ListWrong DEF spoilt
<1>9. CASE what = "both"
  <2>1. key \in {3, 4} /\ spoilt = with(key, IntValue(1)) /\ entry.field # Option
    BY <1>1, <1>2, <1>9 DEF what
  <2>2. HasKey(written, 2)
    BY <2>1, CborKeys
  <2> HIDE DEF written
  <2>3. HasKey(spoilt, 2) /\ HasKey(spoilt, key)
    BY <1>4, <1>w, <2>1, <2>2 DEF HasKey
  <2> DEFINE has == <<HasKey(spoilt, 2), HasKey(spoilt, 3), HasKey(spoilt, 4)>>
  <2>4. has # <<TRUE, FALSE, FALSE>> /\ has # <<FALSE, TRUE, TRUE>>
    BY <2>1, <2>3
  <2> HIDE DEF has
  <2>5. CborFieldRef(spoilt) = Invalid
    BY <2>4 DEF CborFieldRef, has
  <2> QED BY <1>3, <2>5, CborPartsNeeded DEF spoilt, written
<1>10. CASE what = "negative"
  <2>1. HasKey(spoilt, key) /\ spoilt.v[key] = IntValue(-1)
    BY <1>2, <1>4, <1>10
  <2>2. spoilt.v[key].type = "int" /\ spoilt.v[key].v \notin Nat
    BY <2>1 DEF IntValue
  <2>3. CASE key \in {1, 8}
    <3>1. ~GetInt(spoilt, key).ok
      BY <1>3, <2>2 DEF GetInt, AsInt
    <3> QED BY <2>3, <3>1, CborPartsNeeded DEF spoilt
  <2>4. CASE key = 5
    <3>1. Get(spoilt, 5) = Ok(spoilt.v[5])
      BY <2>1, <2>4 DEF Get
    <3>2. Get(spoilt, 5).ok /\ Get(spoilt, 5).value = spoilt.v[5]
      BY <3>1, Outcomes
    <3>3. CborLength(spoilt) = Invalid
      BY <2>2, <2>4, <3>2 DEF CborLength
    <3> QED BY <1>3, <3>3, CborPartsNeeded DEF spoilt
  <2> QED BY <1>1, <1>10, <2>3, <2>4
<1>11. CASE what = "negative-value"
  <2> DEFINE given == Array(<<Indexed(0, IntValue(-1))>>)
  <2>1. HasKey(spoilt, 9) /\ spoilt.v[9] = given
    BY <1>2, <1>4, <1>11
  <2>2. ~ByteStrings(given).ok
    BY NegativeRefused
  <2>3. given.type # "null"
    BY DEF Array
  <2> HIDE DEF given
  <2>4. ~(HasKey(spoilt, 9) /\ spoilt.v[9].type = "null")
    BY <2>1, <2>3
  <2>5. \A matching, action : CborTarget(spoilt, matching, action) = Invalid
    BY <2>1, <2>2, <2>4 DEF CborTarget
  <2> QED BY <1>3, <2>5, CborPartsNeeded DEF spoilt
<1> QED BY <1>1, <1>5, <1>7, <1>8, <1>9, <1>10, <1>11

(* Entries that were put in another order come back in the order of their  *)
(* indexes; where two have one index they are refused.                     *)
LEMMA Counting ==
  ASSUME NEW n \in Nat, NEW order, Permutes(order, n), NEW m \in 1..n
  PROVE  Cardinality({i \in 1..n : order[i] <= m}) = m
<1> DEFINE S == {i \in 1..n : order[i] <= m}
           f == [i \in S |-> order[i]]
<1>1. /\ order \in [1..n -> 1..n]
      /\ \A j, k \in 1..n : j # k => order[j] # order[k]
      /\ \A l \in 1..n : \E k \in 1..n : order[k] = l
  BY DEF Permutes
<1>2. f \in [S -> 1..m]
  BY <1>1
<1>3. \A j, k \in S : j # k => f[j] # f[k]
  BY <1>1
<1>4. ASSUME NEW l \in 1..m PROVE \E k \in S : f[k] = l
  <2>1. l \in 1..n
    OBVIOUS
  <2>2. PICK k \in 1..n : order[k] = l
    BY <1>1, <2>1
  <2>3. k \in S /\ f[k] = l
    BY <2>2
  <2> QED BY <2>3
<1>5. IsFiniteSet(1..n) /\ IsFiniteSet(1..m) /\ Cardinality(1..m) = m
  BY FS_Interval
<1>6. S \in SUBSET (1..n)
  OBVIOUS
<1>7. IsFiniteSet(S)
  <2> HIDE DEF S
  <2> QED BY <1>5, <1>6, FS_Subset
<1> HIDE DEF S, f
<1>8. f \in Bijection(S, 1..m)
  BY <1>2, <1>3, <1>4 DEF Bijection, Injection, IsInjective, Surjection
<1>9. Cardinality(S) = Cardinality(1..m)
  BY <1>7, <1>8, FS_Bijection DEF ExistsBijection
<1> QED BY <1>5, <1>9 DEF S

LEMMA NormalizeBack ==
  ASSUME NEW n \in Nat, NEW entries, entries = [k \in 1..n |-> entries[k]],
         \A k \in 1..n : entries[k].index \in Nat, Ascending(entries),
         NEW order, NEW list, Reorders(list, entries, n, order)
  PROVE  Normalize(list) = IF Normalized(entries) THEN Ok(entries) ELSE Invalid
<1> DEFINE place(j) == Cardinality({i \in 1..Len(list) : list[i].index <= list[j].index})
           at(k) == CHOOSE j \in 1..Len(list) : place(j) = k
           twice == \E j, k \in 1..Len(list) : j # k /\ list[j].index = list[k].index
<1>1. Normalize(list) = IF twice THEN Invalid
                        ELSE Ok([k \in 1..Len(list) |-> list[at(k)]])
  BY DEF Normalize
<1>2. Permutes(order, n) /\ Len(list) = n /\ list = [k \in 1..n |-> entries[order[k]]]
  BY DEF Reorders
<1>3. /\ order \in [1..n -> 1..n]
      /\ \A j, k \in 1..n : j # k => order[j] # order[k]
      /\ \A m \in 1..n : \E k \in 1..n : order[k] = m
  BY <1>2 DEF Permutes
<1>4. Len(entries) = n
  BY Listed
<1>5. \A k \in 1..n : list[k] = entries[order[k]]
  BY <1>2
<1>6. ASSUME ~twice, NEW j \in 1..n, NEW k \in 1..n, j < k
      PROVE  entries[j].index < entries[k].index
  <2>1. PICK a \in 1..n : order[a] = j
    BY <1>3
  <2>2. PICK b \in 1..n : order[b] = k
    BY <1>3
  <2>3. a # b
    BY <1>6, <2>1, <2>2
  <2>4. list[a].index # list[b].index
    BY <1>2, <1>6, <2>3
  <2>5. entries[j].index # entries[k].index
    BY <1>5, <2>1, <2>2, <2>4
  <2>6. entries[j].index <= entries[k].index
    BY <1>4, <1>6 DEF Ascending
  <2> DEFINE x == entries[j].index
             y == entries[k].index
  <2>7. x \in Nat /\ y \in Nat
    OBVIOUS
  <2> HIDE DEF x, y
  <2>8. x < y
    BY <2>5, <2>6, <2>7 DEF x, y
  <2> QED BY <2>8 DEF x, y
<1>7. Normalized(entries) <=> ~twice
  <2>1. ~twice => Normalized(entries)
    BY <1>4, <1>6 DEF Normalized
  <2>2. ASSUME Normalized(entries), NEW j \in 1..n, NEW k \in 1..n, j # k
        PROVE  list[j].index # list[k].index
    <3> DEFINE a == order[j]
               b == order[k]
    <3>1. a \in 1..n /\ b \in 1..n /\ a # b
      BY <1>3, <2>2
    <3> HIDE DEF a, b
    <3>2. a < b \/ b < a
      BY <3>1
    <3>3. entries[a].index < entries[b].index \/ entries[b].index < entries[a].index
      BY <1>4, <2>2, <3>1, <3>2 DEF Normalized
    <3>4. entries[a].index # entries[b].index
      BY <3>1, <3>3
    <3>5. list[j] = entries[a] /\ list[k] = entries[b]
      BY <1>5 DEF a, b
    <3> QED BY <3>4, <3>5
  <2> QED BY <1>2, <2>1, <2>2
<1>8. ASSUME ~twice, NEW j \in 1..n PROVE place(j) = order[j]
  <2> DEFINE m == order[j]
  <2>1. m \in 1..n
    BY <1>3
  <2>2. ASSUME NEW i \in 1..n PROVE list[i].index <= list[j].index <=> order[i] <= m
    <3> DEFINE l == order[i]
    <3>1. l \in 1..n /\ list[i] = entries[l] /\ list[j] = entries[m]
      BY <1>3, <1>5
    <3> HIDE DEF l, m
    <3> DEFINE x == entries[l].index
               y == entries[m].index
    <3>2. x \in Nat /\ y \in Nat
      BY <2>1, <3>1
    <3>3. l < m => x < y
      BY <1>6, <1>8, <2>1, <3>1
    <3>4. m < l => y < x
      BY <1>6, <1>8, <2>1, <3>1
    <3>5. l = m => x = y
      OBVIOUS
    <3>6. list[i].index = x /\ list[j].index = y
      BY <3>1
    <3> HIDE DEF x, y
    <3>7. x <= y <=> l <= m
      BY <2>1, <3>1, <3>2, <3>3, <3>4, <3>5
    <3> QED BY <3>6, <3>7 DEF l
  <2>3. {i \in 1..Len(list) : list[i].index <= list[j].index}
          = {i \in 1..n : order[i] <= m}
    BY <1>2, <2>2
  <2> HIDE DEF m
  <2>4. Cardinality({i \in 1..n : order[i] <= m}) = m
    BY <1>2, <2>1, Counting
  <2> QED BY <2>3, <2>4 DEF m
<1> HIDE DEF place
<1>9. ASSUME ~twice, NEW k \in 1..n PROVE list[at(k)] = entries[k]
  <2>1. PICK j \in 1..n : order[j] = k
    BY <1>3
  <2>2. place(j) = k
    BY <1>8, <1>9, <2>1
  <2>3. at(k) \in 1..n /\ place(at(k)) = k
    BY <1>2, <2>2
  <2> HIDE DEF at
  <2>4. order[at(k)] = k
    BY <1>8, <1>9, <2>3
  <2> QED BY <1>5, <2>3, <2>4
<1> HIDE DEF at
<1>10. ~twice => [k \in 1..Len(list) |-> list[at(k)]] = entries
  <2> SUFFICES ASSUME ~twice PROVE [k \in 1..Len(list) |-> list[at(k)]] = entries
    OBVIOUS
  <2>1. [k \in 1..Len(list) |-> list[at(k)]] = [k \in 1..n |-> entries[k]]
    BY <1>2, <1>9
  <2> QED BY <2>1
<1> QED BY <1>1, <1>7, <1>10

(* The nature of a rule.                                                   *)
LEMMA OneNature ==
  ASSUME NEW nature \in Natures
  PROVE  LET i == IdentifierFor(NatureOf, nature)
         IN i \in DOMAIN NatureOf /\ NatureOf[i] = nature
<1>1. /\ NatureOf["nature-compression"] = "compression"
      /\ NatureOf["nature-no-compression"] = "no-compression"
      /\ NatureOf["nature-fragmentation"] = "fragmentation"
      /\ NatureOf["nature-management"] = "management"
  BY DEF NatureOf
<1>2. DOMAIN NatureOf = {"nature-compression", "nature-no-compression",
                         "nature-fragmentation", "nature-management"}
  BY DEF NatureOf
<1>3. \E i \in DOMAIN NatureOf : NatureOf[i] = nature
  BY <1>1, <1>2 DEF Natures
<1> QED BY <1>3 DEF IdentifierFor

LEMMA NatureBack ==
  ASSUME FilesReady, NEW rule, rule.nature \in Natures,
         \A i \in NatureReferences(rule) : Steady(i),
         NEW value, value.type = "map",
         HasKey(value, 3) <=> ~(document.terse /\ rule.nature = "compression"),
         HasKey(value, 3) => value.v[3] = Sid(IdentifierFor(NatureOf, rule.nature))
  PROVE  CborNature(value) = IF NatureKnown(rule) THEN Ok(rule.nature)
                             ELSE Err("InvalidRule")
<1> DEFINE name == IdentifierFor(NatureOf, rule.nature)
           sid == GetInt(value, 3)
           identity == IdentifierOf(sid.value)
<1>1. CborNature(value) =
        IF ~HasKey(value, 3) THEN Ok("compression")
        ELSE IF ~sid.ok THEN Err("InvalidRule")
        ELSE IF sid.value = 0 THEN Ok("compression")
        ELSE IF identity \in DOMAIN NatureOf THEN Ok(NatureOf[identity])
        ELSE Err("InvalidRule")
  BY DEF CborNature
<1>2. CASE ~HasKey(value, 3)
  BY <1>1, <1>2 DEF NatureKnown, NatureReferences
<1>3. CASE HasKey(value, 3)
  <2>1. (NatureKnown(rule) <=> Resolves(name)) /\ Steady(name)
    BY <1>3 DEF NatureKnown, NatureReferences
  <2>2. sid = Ok(Numbering(name))
    BY <1>3, <2>1, IdentityBack
  <2>3. /\ sid.ok /\ sid.value # 0
        /\ identity = IF Resolves(name) THEN name ELSE Absent
    BY <2>1, <2>2, NumberedBack, Outcomes
  <2>4. name \in DOMAIN NatureOf /\ NatureOf[name] = rule.nature
    BY OneNature
  <2>5. Absent \notin DOMAIN NatureOf
    BY KeysAssumption DEF Identities
  <2> HIDE DEF sid, identity, name
  <2> QED BY <1>1, <1>3, <2>1, <2>3, <2>4, <2>5
<1> QED BY <1>2, <1>3

(* The entries of a rule, put in the order of the file and back.           *)
CborReadable(entries) ==
  /\ Normalized(entries)
  /\ \A k \in 1..Len(entries) : CborKnows(entries[k]) /\ ValidEntry(Understood(entries[k]))

AllUnderstood(entries) == [k \in 1..Len(entries) |-> Understood(entries[k])]

LEMMA UnderstoodList ==
  ASSUME NEW entries \in Seq(FieldEntries)
  PROVE  LET all == AllUnderstood(entries)
             n == Len(entries)
         IN /\ n \in Nat /\ Len(all) = n /\ all = [k \in 1..n |-> all[k]]
            /\ \A k \in 1..n : /\ entries[k] \in FieldEntries
                               /\ all[k] = Understood(entries[k])
                               /\ all[k].index = entries[k].index
                               /\ all[k].index \in Nat
            /\ Normalized(all) <=> Normalized(entries)
            /\ Ascending(all) <=> Ascending(entries)
<1> DEFINE all == AllUnderstood(entries)
           n == Len(entries)
           F == FieldEntries
<1>1. n \in Nat /\ \A k \in 1..n : entries[k] \in F
  <2> HIDE DEF F
  <2>1. entries \in Seq(F)
    BY DEF F
  <2> QED BY <2>1
<1>2. all = [k \in 1..n |-> Understood(entries[k])]
  BY DEF AllUnderstood
<1> HIDE DEF all, n
<1>3. Len(all) = n /\ all = [k \in 1..n |-> all[k]]
      /\ \A k \in 1..n : all[k] = Understood(entries[k])
  BY <1>1, <1>2
<1>4. \A k \in 1..n : Understood(entries[k]).index = entries[k].index
  BY <1>1, UnderstoodParts
<1>5. \A k \in 1..n : entries[k].index \in Nat
  BY <1>1 DEF FieldEntries
<1>6. \A k \in 1..n : all[k].index = entries[k].index
  BY <1>3, <1>4
<1>7. Normalized(all) <=> Normalized(entries)
  BY <1>1, <1>3, <1>6 DEF Normalized, n
<1>8. Ascending(all) <=> Ascending(entries)
  BY <1>1, <1>3, <1>6 DEF Ascending, n
<1> QED BY <1>1, <1>3, <1>5, <1>6, <1>7, <1>8 DEF all, n, F

(* How the written entries are read one by one, the first may be spoilt.   *)
CborReads(entries, written, clean) ==
  /\ written = [k \in 1..Len(entries) |-> written[k]]
  /\ clean => \A k \in 1..Len(entries) :
                CborEntry(written[k])
                  = IF CborKnows(entries[k]) /\ ValidEntry(Understood(entries[k]))
                    THEN Ok(Understood(entries[k])) ELSE Invalid
  /\ ~clean => 1 \in 1..Len(entries) /\ ~CborEntry(written[1]).ok

LEMMA EntriesBack ==
  ASSUME NEW entries \in Seq(FieldEntries), Ascending(entries),
         NEW written, NEW clean \in BOOLEAN, CborReads(entries, written, clean),
         NEW value, HasKey(value, 23), value.v[23] = Array(InFileOrder(written)),
         NEW nature
  PROVE  LET loaded == CborEntries(value, nature)
         IN /\ clean /\ CborReadable(entries) => loaded = Ok(AllUnderstood(entries))
            /\ loaded.ok => clean /\ CborReadable(entries)
<1> DEFINE n == Len(entries)
           list == InFileOrder(written)
           all == AllUnderstood(entries)
           results == [k \in 1..Len(list) |-> CborEntry(list[k])]
           read == AllOk(results)
           loaded == CborEntries(value, nature)
           fine(k) == CborKnows(entries[k]) /\ ValidEntry(Understood(entries[k]))
<1>1. /\ n \in Nat /\ Len(all) = n /\ all = [k \in 1..n |-> all[k]]
      /\ \A k \in 1..n : all[k] = Understood(entries[k]) /\ all[k].index \in Nat
      /\ Normalized(all) <=> Normalized(entries)
      /\ Ascending(all)
  BY UnderstoodList
<1>2. value.v[23].type = "array" /\ value.v[23].v = list
  BY DEF Array
<1>3. loaded = IF read.ok THEN Normalize(read.value) ELSE read
  BY <1>2 DEF CborEntries
<1> HIDE DEF n, list, all, loaded
<1>4. PICK order : Reorders(list, written, n, order)
  <2>1. n \in Nat /\ written = [k \in 1..n |-> written[k]]
    BY <1>1 DEF CborReads, n
  <2> QED BY <2>1, OrderPermutes DEF list
<1>5. /\ Permutes(order, n) /\ Len(list) = n
      /\ list = [k \in 1..n |-> written[order[k]]]
  BY <1>4 DEF Reorders
<1>6. /\ \A k \in 1..n : order[k] \in 1..n
      /\ \A m \in 1..n : \E k \in 1..n : order[k] = m
  BY <1>5 DEF Permutes
<1>7. /\ results = [k \in 1..n |-> results[k]]
      /\ \A k \in 1..n : results[k] = CborEntry(written[order[k]])
  BY <1>5
<1> HIDE DEF results, fine
<1>8. ASSUME clean, NEW k \in 1..n
      PROVE  results[k] = IF fine(order[k]) THEN Ok(all[order[k]]) ELSE Invalid
  <2> DEFINE m == order[k]
  <2>1. m \in 1..n /\ results[k] = CborEntry(written[m])
    BY <1>6, <1>7
  <2> HIDE DEF m
  <2>2. CborEntry(written[m]) = IF fine(m) THEN Ok(Understood(entries[m])) ELSE Invalid
    BY <1>8, <2>1 DEF n, fine, CborReads
  <2>3. all[m] = Understood(entries[m])
    BY <1>1, <2>1
  <2> QED BY <2>1, <2>2, <2>3 DEF m
<1>9. ~Invalid.ok
  BY Outcomes DEF Invalid
<1>10. read.ok => \A k \in 1..n : results[k].ok
  BY <1>1, <1>7, OneRefused
<1>11. read.ok => clean
  <2> SUFFICES ASSUME read.ok, ~clean PROVE FALSE
    OBVIOUS
  <2>1. 1 \in 1..n /\ ~CborEntry(written[1]).ok
    BY DEF n, CborReads
  <2>2. PICK k \in 1..n : order[k] = 1
    BY <1>6, <2>1
  <2>3. ~results[k].ok
    BY <1>7, <2>1, <2>2
  <2> QED BY <1>10, <2>3
<1>12. read.ok => \A m \in 1..n : fine(m)
  <2> SUFFICES ASSUME read.ok, NEW m \in 1..n PROVE fine(m)
    OBVIOUS
  <2>1. PICK k \in 1..n : order[k] = m
    BY <1>6
  <2>2. results[k].ok
    BY <1>10
  <2> QED BY <1>8, <1>9, <1>11, <2>1, <2>2
<1> DEFINE turned == [k \in 1..n |-> all[order[k]]]
<1>13. Len(turned) = n /\ turned = [k \in 1..n |-> turned[k]]
       /\ \A k \in 1..n : turned[k] = all[order[k]]
  BY <1>1
<1>14. Reorders(turned, all, n, order)
  BY <1>5, <1>13 DEF Reorders
<1> HIDE DEF turned
<1>15. Normalize(turned) = IF Normalized(all) THEN Ok(all) ELSE Invalid
  BY <1>1, <1>14, NormalizeBack
<1>16. ASSUME clean, \A m \in 1..n : fine(m) PROVE read = Ok(turned)
  <2>1. ASSUME NEW k \in 1..n PROVE results[k] = Ok(turned[k])
    <3>1. fine(order[k])
      BY <1>6, <1>16
    <3>2. results[k] = Ok(all[order[k]])
      BY <1>8, <1>16, <3>1
    <3> QED BY <1>13, <3>2
  <2>2. results = [k \in 1..n |-> Ok(turned[k])]
    BY <1>7, <2>1
  <2>3. read = Ok([k \in 1..n |-> turned[k]])
    BY <1>1, <1>13, <2>2, AllOkGiven
  <2> QED BY <1>13, <2>3
<1>17. CborReadable(entries) <=> Normalized(all) /\ \A m \in 1..n : fine(m)
  BY <1>1 DEF CborReadable, n, fine
<1> HIDE DEF read
<1>18. ASSUME clean, CborReadable(entries) PROVE loaded = Ok(all)
  BY <1>3, <1>15, <1>16, <1>17, <1>18, Outcomes
<1>19. ASSUME loaded.ok PROVE clean /\ CborReadable(entries)
  <2>1. read.ok
    BY <1>3, <1>19
  <2>2. clean /\ read = Ok(turned)
    BY <1>11, <1>12, <1>16, <2>1
  <2>3. loaded = Normalize(turned)
    BY <1>3, <2>1, <2>2, Outcomes
  <2> QED BY <1>9, <1>12, <1>15, <1>17, <1>19, <2>1, <2>2, <2>3
<1> QED BY <1>18, <1>19 DEF loaded, all

(* What a rule is made of in a CBOR file, and whether it loads.            *)
CborClean(r) == r = 1 => document.defect \notin CborDefects

UnderstoodRule(rule) == [rule EXCEPT !.entries = AllUnderstood(rule.entries)]

CborLoadable(rule) ==
  /\ ValidRuleId(rule.id)
  /\ NatureKnown(rule)
  /\ CborReadable(rule.entries)

CborFields(r, rule) ==
  [k \in 1..Len(rule.entries) |->
     IF r = 1 /\ k = 1 THEN SpoiltCbor(WrittenCborEntry(rule.entries[k]))
     ELSE WrittenCborEntry(rule.entries[k])]

CborBare(r, rule) ==
  \/ r = 1 /\ document.defect.what = "no-entries"
  \/ /\ document.terse /\ CborFields(r, rule) = <<>>
     /\ rule.nature \in {"no-compression", "fragmentation"}

LEMMA CborRuleKeys ==
  ASSUME NEW r, NEW rule
  PROVE  LET value == WrittenCborRule(r, rule)
         IN /\ value.type = "map"
            /\ HasKey(value, 1) /\ value.v[1] = IntValue(rule.id.len)
            /\ HasKey(value, 2) /\ value.v[2] = IntValue(rule.id.value)
            /\ HasKey(value, 3) <=> ~(document.terse /\ rule.nature = "compression")
            /\ HasKey(value, 3) => value.v[3] = Sid(IdentifierFor(NatureOf, rule.nature))
            /\ HasKey(value, 23) <=> ~CborBare(r, rule)
            /\ HasKey(value, 23) => value.v[23] = Array(InFileOrder(CborFields(r, rule)))
<1> DEFINE entries == CborFields(r, rule)
           nature == IdentifierFor(NatureOf, rule.nature)
           unnatured == document.terse /\ rule.nature = "compression"
           bare == CborBare(r, rule)
           keys == {1, 2} \cup {k \in {3} : ~unnatured} \cup {k \in {23} : ~bare}
           pairs == [k \in keys |-> CASE k = 1 -> IntValue(rule.id.len)
                                      [] k = 2 -> IntValue(rule.id.value)
                                      [] k = 3 -> Sid(nature)
                                      [] k = 23 -> Array(InFileOrder(entries))]
           value == WrittenCborRule(r, rule)
<1>1. value = Map(pairs)
  BY DEF WrittenCborRule, CborFields, CborBare
<1>2. value.type = "map" /\ value.v = pairs
  BY <1>1 DEF Map
<1> HIDE DEF value, entries, nature, unnatured, bare
<1>3. /\ 1 \in keys /\ 2 \in keys /\ (3 \in keys <=> ~unnatured)
      /\ 23 \in keys <=> ~bare
  OBVIOUS
<1>4. DOMAIN pairs = keys
  OBVIOUS
<1> HIDE DEF keys
<1>5. pairs[1] = IntValue(rule.id.len)
  BY <1>3
<1>6. pairs[2] = IntValue(rule.id.value)
  BY <1>3
<1>7. 3 \in keys => pairs[3] = Sid(nature)
  OBVIOUS
<1>8. 23 \in keys => pairs[23] = Array(InFileOrder(entries))
  OBVIOUS
<1> HIDE DEF pairs
<1>9. \A k : HasKey(value, k) <=> k \in keys
  BY <1>2, <1>4 DEF HasKey
<1> QED BY <1>2, <1>3, <1>5, <1>6, <1>7, <1>8, <1>9 DEF value, entries, nature, unnatured, bare

LEMMA CborRuleBack ==
  ASSUME FilesReady, document \in Documents, NEW r \in 1..Len(document.rules),
         SteadyRule(document.rules[r])
  PROVE  LET rule == document.rules[r]
             loaded == CborRule(WrittenCborRule(r, rule))
         IN /\ CborLoadable(rule) /\ CborClean(r) => loaded = Ok(UnderstoodRule(rule))
            /\ loaded.ok => CborLoadable(rule) /\ CborClean(r)
<1> DEFINE rule == document.rules[r]
           list == rule.entries
           n == Len(list)
           entry(k) == WrittenCborEntry(list[k])
           written == CborFields(r, rule)
           unlisted == r = 1 /\ document.defect.what = "no-entries"
           empty == /\ document.terse /\ written = <<>>
                    /\ rule.nature \in {"no-compression", "fragmentation"}
           value == WrittenCborRule(r, rule)
           len == GetInt(value, 1)
           id == GetInt(value, 2)
           rule_id == [value |-> id.value, len |-> len.value]
           nature == CborNature(value)
           entries == CborEntries(value, nature.value)
           result == CborRule(value)
           defective == document.defect \in CborDefects
<1>1. /\ document.rules \in Seq(RuleRecords)
      /\ document.defect \in {NoDefect} \cup JsonDefects \cup CborDefects
      /\ \A k \in 1..Len(list) : Writable(list[k])
      /\ Ascending(list)
      /\ r = 1 /\ document.defect # NoDefect => list # <<>>
      /\ unlisted => rule.nature \in {"compression", "management"}
      /\ r = 1 /\ document.defect.what = "both" => list[1].field # Option
  BY DocumentsAssumption, DefectsAssumption
<1>s. /\ \A i \in NatureReferences(rule) : Steady(i)
      /\ \A k \in 1..n : \A i \in References(list[k]) \cup LengthReferences(list[k]) :
            Steady(i)
  BY DEF SteadyRule
<1>2. /\ rule \in RuleRecords /\ list \in Seq(FieldEntries) /\ n \in Nat
      /\ \A k \in 1..n : list[k] \in FieldEntries
  <2>1. list \in Seq(FieldEntries) /\ n \in Nat
    BY <1>1, EntriesListed
  <2> DEFINE F == FieldEntries
  <2> HIDE DEF F
  <2>2. \A k \in 1..n : list[k] \in F
    BY <2>1 DEF F
  <2> QED BY <1>1, <2>1, <2>2 DEF F
<1>3. /\ rule.id = [value |-> rule.id.value, len |-> rule.id.len]
      /\ rule.id.len \in Nat /\ rule.id.value \in Nat
      /\ rule.nature \in Natures
      /\ rule = [id |-> rule.id, nature |-> rule.nature, entries |-> list]
  BY <1>2 DEF RuleRecords
<1>4. /\ value.type = "map"
      /\ HasKey(value, 1) /\ value.v[1] = IntValue(rule.id.len)
      /\ HasKey(value, 2) /\ value.v[2] = IntValue(rule.id.value)
      /\ HasKey(value, 3) <=> ~(document.terse /\ rule.nature = "compression")
      /\ HasKey(value, 3) => value.v[3] = Sid(IdentifierFor(NatureOf, rule.nature))
      /\ HasKey(value, 23) <=> ~(unlisted \/ empty)
      /\ HasKey(value, 23) => value.v[23] = Array(InFileOrder(written))
  <2>1. CborBare(r, rule) <=> unlisted \/ empty
    BY DEF CborBare
  <2> QED BY <2>1, CborRuleKeys
<1>5. unlisted => defective
  <2> SUFFICES ASSUME document.defect.what = "no-entries" PROVE defective
    OBVIOUS
  <2>1. document.defect # NoDefect /\ document.defect \notin JsonDefects
    BY DEF NoDefect, JsonDefects
  <2> QED BY <1>1, <2>1
<1>6. defective => document.defect # NoDefect
  BY DEF CborDefects, NoDefect
<1>7. written = [k \in 1..n |-> written[k]] /\ Len(written) = n
      /\ \A k \in 1..n : written[k] = IF r = 1 /\ k = 1 THEN SpoiltCbor(entry(k))
                                     ELSE entry(k)
  <2> HIDE DEF n
  <2> QED BY <1>2 DEF CborFields, n
<1> HIDE DEF written, value, rule
<1>8. len = Ok(rule.id.len) /\ id = Ok(rule.id.value)
  BY <1>3, <1>4, IntBack
<1>9. len.ok /\ id.ok /\ rule_id = rule.id
  BY <1>3, <1>8, Outcomes
<1>10. nature = IF NatureKnown(rule) THEN Ok(rule.nature) ELSE Err("InvalidRule")
  BY <1>3, <1>4, <1>s, NatureBack
<1>11. /\ nature.ok <=> NatureKnown(rule)
       /\ nature.ok => nature.value = rule.nature
  BY <1>10, Outcomes
<1>12. result = IF ~len.ok \/ ~id.ok THEN Err("InvalidRule")
                ELSE IF ~ValidRuleId(rule_id) THEN Err("InvalidRule")
                ELSE IF ~nature.ok THEN nature
                ELSE IF ~entries.ok THEN entries
                ELSE Ok([id |-> rule_id, nature |-> nature.value,
                         entries |-> entries.value])
  BY DEF CborRule
<1> HIDE DEF len, id, rule_id, nature, result
<1>13. CborClean(r) <=> ~(r = 1 /\ defective)
  BY DEF CborClean
<1>14. nature.ok => /\ CborReadable(list) /\ CborClean(r) => entries = Ok(AllUnderstood(list))
                    /\ entries.ok => CborReadable(list) /\ CborClean(r)
  <2> SUFFICES ASSUME nature.ok
               PROVE  /\ CborReadable(list) /\ CborClean(r) => entries = Ok(AllUnderstood(list))
                      /\ entries.ok => CborReadable(list) /\ CborClean(r)
    OBVIOUS
  <2>1. CASE HasKey(value, 23)
    <3> DEFINE clean == CborClean(r)
    <3>1. ~unlisted
      BY <1>4, <2>1
    <3>2. ASSUME clean, NEW k \in 1..n
          PROVE  CborEntry(written[k])
                   = IF CborKnows(list[k]) /\ ValidEntry(Understood(list[k]))
                     THEN Ok(Understood(list[k])) ELSE Invalid
      <4>1. written[k] = entry(k)
        <5>1. CASE r = 1 /\ k = 1
          <6>1. document.defect.format # "cbor"
            BY <1>1, <3>2, <5>1, <1>13 DEF NoDefect, JsonDefects
          <6>2. SpoiltCbor(entry(k)) = entry(k)
            BY <6>1 DEF SpoiltCbor
          <6> QED BY <1>7, <5>1, <6>2
        <5>2. CASE ~(r = 1 /\ k = 1)
          BY <1>7, <5>2
        <5> QED BY <5>1, <5>2
      <4>2. list[k] \in FieldEntries /\ Writable(list[k])
        BY <1>1, <1>2
      <4>3. \A i \in References(list[k]) \cup LengthReferences(list[k]) : Steady(i)
        BY <1>s
      <4> QED BY <4>1, <4>2, <4>3, CborEntryBack
    <3>3. ASSUME ~clean PROVE 1 \in 1..n /\ ~CborEntry(written[1]).ok
      <4>1. r = 1 /\ defective
        BY <1>13, <3>3
      <4>2. n # 0
        BY <1>1, <1>2, <1>6, <4>1, EmptySeq
      <4>3. 1 \in 1..n
        BY <1>2, <4>2
      <4>4. written[1] = SpoiltCbor(entry(1))
        BY <1>7, <4>1, <4>3
      <4>5. ~CborEntry(SpoiltCbor(entry(1))).ok
        <5>1. document.defect.what # "no-entries"
          BY <3>1, <4>1
        <5>2. document.defect.what = "both" => list[1].field # Option
          BY <1>1, <4>1
        <5> QED BY <4>1, <5>1, <5>2, SpoiltCborRefused
      <4> QED BY <4>3, <4>4, <4>5
    <3>4. clean \in BOOLEAN
      BY DEF CborClean
    <3> HIDE DEF clean, entries, n, list
    <3>5. /\ clean /\ CborReadable(list)
               => CborEntries(value, nature.value) = Ok(AllUnderstood(list))
          /\ CborEntries(value, nature.value).ok => clean /\ CborReadable(list)
      <4>1. CborReads(list, written, clean)
        BY <1>7, <3>2, <3>3 DEF CborReads, n
      <4>2. list \in Seq(FieldEntries) /\ Ascending(list)
        BY <1>1, <1>2
      <4>3. HasKey(value, 23) /\ value.v[23] = Array(InFileOrder(written))
        BY <1>4, <2>1
      <4> QED BY <3>4, <4>1, <4>2, <4>3, EntriesBack
    <3> QED BY <3>5 DEF clean, entries
  <2>2. CASE ~HasKey(value, 23)
    <3>1. entries = IF rule.nature \in {"no-compression", "fragmentation"} THEN Ok(<<>>)
                    ELSE Err("InvalidRule")
      BY <1>11, <2>2 DEF CborEntries
    <3>2. CASE unlisted
      <4>1. rule.nature \notin {"no-compression", "fragmentation"}
        BY <1>1, <3>2 DEF rule
      <4>2. ~entries.ok
        BY <3>1, <4>1, Outcomes
      <4>3. ~CborClean(r)
        BY <1>5, <1>13, <3>2
      <4> QED BY <4>2, <4>3
    <3>3. CASE ~unlisted
      <4>1. empty
        BY <1>4, <2>2, <3>3
      <4>2. n = 0
        BY <1>7, <4>1
      <4>3. entries = Ok(<<>>)
        BY <3>1, <4>1
      <4>4. AllUnderstood(list) = <<>>
        <5>1. AllUnderstood(list) = [k \in 1..0 |-> Understood(list[k])]
          BY <4>2 DEF AllUnderstood
        <5> QED BY <5>1
      <4>5. CborReadable(list)
        BY <4>2 DEF CborReadable, Normalized
      <4>6. CborClean(r)
        <5>1. ASSUME r = 1, defective PROVE FALSE
          <6>1. list # <<>>
            BY <1>1, <1>6, <5>1
          <6> QED BY <1>2, <4>2, <6>1, EmptySeq
        <5> QED BY <1>13, <5>1
      <4> QED BY <4>3, <4>4, <4>5, <4>6
    <3> QED BY <3>2, <3>3
  <2> QED BY <2>1, <2>2
<1> HIDE DEF entries
<1>15. ASSUME CborLoadable(rule), CborClean(r) PROVE result = Ok(UnderstoodRule(rule))
  <2>1. /\ ValidRuleId(rule.id) /\ nature.ok /\ CborReadable(list)
    BY <1>11, <1>15 DEF CborLoadable
  <2>2. entries = Ok(AllUnderstood(list))
    BY <1>14, <1>15, <2>1
  <2>3. result = Ok([id |-> rule.id, nature |-> rule.nature, entries |-> AllUnderstood(list)])
    BY <1>9, <1>11, <1>12, <2>1, <2>2, Outcomes
  <2>4. UnderstoodRule(rule)
          = [id |-> rule.id, nature |-> rule.nature, entries |-> AllUnderstood(list)]
    <3> DEFINE all == AllUnderstood(list)
    <3>1. UnderstoodRule(rule) = [rule EXCEPT !.entries = all]
      BY DEF UnderstoodRule
    <3> HIDE DEF all
    <3>2. [rule EXCEPT !.entries = all]
            = [id |-> rule.id, nature |-> rule.nature, entries |-> all]
      BY <1>3
    <3> QED BY <3>1, <3>2 DEF all
  <2> QED BY <2>3, <2>4
<1>16. ASSUME result.ok PROVE CborLoadable(rule) /\ CborClean(r)
  <2>1. ValidRuleId(rule.id) /\ nature.ok /\ entries.ok
    BY <1>9, <1>12, <1>16, Outcomes
  <2> QED BY <1>11, <1>14, <2>1 DEF CborLoadable
<1> QED BY <1>15, <1>16 DEF result, rule, value

(* What a CBOR file can say of a rule keeps what makes the rule load.      *)
LEMMA UnderstoodFacts ==
  ASSUME NEW rule \in RuleRecords
  PROVE  LET meant == UnderstoodRule(rule)
         IN /\ meant.id = rule.id /\ meant.nature = rule.nature
            /\ rule.nature \in Natures
            /\ Len(meant.entries) = Len(rule.entries)
            /\ Normalized(meant.entries) <=> Normalized(rule.entries)
            /\ \A k \in 1..Len(rule.entries) :
                 /\ meant.entries[k] = Understood(rule.entries[k])
                 /\ CborKnows(meant.entries[k]) <=> CborKnows(rule.entries[k])
<1> DEFINE n == Len(rule.entries)
           meant == UnderstoodRule(rule)
           all == AllUnderstood(rule.entries)
<1>1. rule.nature \in Natures /\ rule.entries \in Seq(FieldEntries)
  BY DEF RuleRecords
<1>2. meant.id = rule.id /\ meant.nature = rule.nature /\ meant.entries = all
  <2> HIDE DEF all
  <2>1. meant = [rule EXCEPT !.entries = all]
    BY DEF UnderstoodRule, all
  <2> HIDE DEF meant
  <2> QED BY <2>1 DEF RuleRecords
<1> HIDE DEF meant
<1>3. /\ Len(all) = n
      /\ \A k \in 1..n : rule.entries[k] \in FieldEntries /\ all[k] = Understood(rule.entries[k])
      /\ Normalized(all) <=> Normalized(rule.entries)
  BY <1>1, UnderstoodList
<1> HIDE DEF all, n
<1>4. \A k \in 1..n : CborKnows(all[k]) <=> CborKnows(rule.entries[k])
  BY <1>3, UnderstoodParts
<1> QED BY <1>1, <1>2, <1>3, <1>4 DEF meant, n

(* The rules of the document as a CBOR file can say them.                  *)
Meant(rs) ==
  [r \in 1..Len(rs) |->
     [rs[r] EXCEPT !.entries = [k \in 1..Len(@) |-> Understood(@[k])]]]

LEMMA MeantRules ==
  ASSUME NEW rs \in Seq(RuleRecords)
  PROVE  /\ Len(Meant(rs)) = Len(rs)
         /\ Meant(rs) = [r \in 1..Len(rs) |-> Meant(rs)[r]]
         /\ \A r \in 1..Len(rs) : Meant(rs)[r] = UnderstoodRule(rs[r])
<1> DEFINE n == Len(rs)
           list == [r \in 1..n |-> UnderstoodRule(rs[r])]
<1>1. n \in Nat
  OBVIOUS
<1>2. Meant(rs) = list
  BY DEF Meant, UnderstoodRule, AllUnderstood
<1> HIDE DEF n
<1>3. Len(list) = n /\ list = [r \in 1..n |-> list[r]]
      /\ \A r \in 1..n : list[r] = UnderstoodRule(rs[r])
  BY <1>1
<1> QED BY <1>2, <1>3 DEF n

(* What the CBOR loader may return for the document.                       *)
CborFaithful(result) ==
  (\A r \in 1..Len(document.rules) : SteadyRule(document.rules[r])) =>
  LET rules == Meant(document.rules)
      knows == /\ \A e \in Entries(rules) : CborKnows(rules[e[1]].entries[e[2]])
               /\ \A r \in 1..Len(rules) : NatureKnown(rules[r])
  IN IF Loads(rules) /\ knows /\ document.defect \notin CborDefects
     THEN result = Ok(rules) ELSE ~result.ok

(* It changes only with the registry, the document and its edition.        *)
LEMMA CborFaithfulStays ==
  ASSUME UNCHANGED <<inserted, document, edition>>
  PROVE  \A result : CborFaithful(result)' <=> CborFaithful(result)
<1>n. \A i : Numbering(i)' = Numbering(i)
  BY DEF Numbering
<1>f. \A i, s : InForce(i, s)' <=> InForce(i, s)
  BY DEF InForce
<1>1. \A i : (Resolves(i)' <=> Resolves(i)) /\ (Steady(i)' <=> Steady(i))
  BY <1>n, <1>f DEF Resolves, Steady
<1>2. \A e : IsNamed(e)' <=> IsNamed(e)
  BY DEF IsNamed
<1>r. /\ \A e : /\ References(e)' = References(e)
                 /\ LengthReferences(e)' = LengthReferences(e)
      /\ \A rule : NatureReferences(rule)' = NatureReferences(rule)
  BY <1>2 DEF References, LengthReferences, NatureReferences, CborName, OptionName
<1>3. \A e : CborKnows(e)' <=> CborKnows(e)
  BY <1>1, <1>r DEF CborKnows
<1>4. \A rule : /\ NatureKnown(rule)' <=> NatureKnown(rule)
                /\ SteadyRule(rule)' <=> SteadyRule(rule)
  BY <1>1, <1>r DEF NatureKnown, SteadyRule
<1>5. \A e : Understood(e)' = Understood(e)
  BY <1>1, <1>n DEF Understood
<1>6. \A rs : Meant(rs)' = Meant(rs)
  BY <1>5 DEF Meant
<1> QED BY <1>3, <1>4, <1>6 DEF CborFaithful

(* The rules of a file that loads are those of the document.               *)
LEMMA CborBack ==
  ASSUME FilesReady, document \in Documents,
         \A r \in 1..Len(document.rules) : SteadyRule(document.rules[r])
  PROVE  CborFaithful(FromCbor(Written(document.rules, WrittenCborRule)))
<1> DEFINE rs == document.rules
           n == Len(rs)
           written == [r \in 1..n |-> WrittenCborRule(r, rs[r])]
           results == [r \in 1..Len(written) |-> CborRule(written[r])]
           rules == Meant(rs)
           knows == /\ \A e \in Entries(rules) : CborKnows(rules[e[1]].entries[e[2]])
                    /\ \A r \in 1..Len(rules) : NatureKnown(rules[r])
           result == FromCbor(Written(rs, WrittenCborRule))
           fine(r) == \A k \in 1..Len(rs[r].entries) : ValidEntry(Understood(rs[r].entries[k]))
<1>1. /\ rs \in Seq(RuleRecords) /\ n \in Nat
      /\ document.defect # NoDefect => rs # <<>>
  BY DocumentsAssumption, DefectsAssumption
<1>2. result = RuleSet(results)
  BY DEF Written, FromCbor
<1>3. Len(written) = n /\ \A r \in 1..n : written[r] = WrittenCborRule(r, rs[r])
  BY <1>1
<1>4. /\ results = [r \in 1..n |-> results[r]]
      /\ \A r \in 1..n : results[r] = CborRule(WrittenCborRule(r, rs[r]))
  BY <1>3
<1>5. \A r \in 1..n :
        /\ CborLoadable(rs[r]) /\ CborClean(r) => results[r] = Ok(UnderstoodRule(rs[r]))
        /\ results[r].ok => CborLoadable(rs[r]) /\ CborClean(r)
  BY <1>4, CborRuleBack
<1> HIDE DEF written, results, result
<1>6. /\ Len(rules) = n /\ rules = [r \in 1..n |-> rules[r]]
      /\ \A r \in 1..n : rules[r] = UnderstoodRule(rs[r])
  BY <1>1, MeantRules
<1>7. \A r \in 1..n :
        /\ rules[r].id = rs[r].id /\ rules[r].nature = rs[r].nature
        /\ rs[r].nature \in Natures
        /\ Len(rules[r].entries) = Len(rs[r].entries)
        /\ Normalized(rules[r].entries) <=> Normalized(rs[r].entries)
        /\ \A k \in 1..Len(rs[r].entries) :
             /\ rules[r].entries[k] = Understood(rs[r].entries[k])
             /\ CborKnows(rules[r].entries[k]) <=> CborKnows(rs[r].entries[k])
  <2> SUFFICES ASSUME NEW r \in 1..n
               PROVE  /\ rules[r].id = rs[r].id /\ rules[r].nature = rs[r].nature
                      /\ rs[r].nature \in Natures
                      /\ Len(rules[r].entries) = Len(rs[r].entries)
                      /\ Normalized(rules[r].entries) <=> Normalized(rs[r].entries)
                      /\ \A k \in 1..Len(rs[r].entries) :
                           /\ rules[r].entries[k] = Understood(rs[r].entries[k])
                           /\ CborKnows(rules[r].entries[k]) <=> CborKnows(rs[r].entries[k])
    OBVIOUS
  <2> DEFINE R == RuleRecords
             before == rs[r]
             after == rules[r]
  <2>1. before \in RuleRecords
    <3> HIDE DEF R
    <3>1. rs \in Seq(R)
      BY <1>1 DEF R
    <3>2. rs[r] \in R
      BY <3>1
    <3> QED BY <3>2 DEF R
  <2>2. after = UnderstoodRule(before)
    BY <1>6
  <2> HIDE DEF before, after
  <2>3. /\ after.id = before.id /\ after.nature = before.nature
        /\ before.nature \in Natures
        /\ Len(after.entries) = Len(before.entries)
        /\ Normalized(after.entries) <=> Normalized(before.entries)
        /\ \A k \in 1..Len(before.entries) :
             /\ after.entries[k] = Understood(before.entries[k])
             /\ CborKnows(after.entries[k]) <=> CborKnows(before.entries[k])
    BY <2>1, <2>2, UnderstoodFacts
  <2> QED BY <2>3 DEF before, after
<1> HIDE DEF rules, n
<1>8. Loads(rules) <=>
        /\ \A r \in 1..n : /\ ValidRuleId(rs[r].id)
                           /\ Normalized(rs[r].entries)
                           /\ fine(r)
        /\ ValidRuleIdPrefixes(rules)
  BY <1>6, <1>7 DEF Loads
<1>9. knows <=> /\ \A r \in 1..n : \A k \in 1..Len(rs[r].entries) : CborKnows(rs[r].entries[k])
                /\ \A r \in 1..n : NatureKnown(rs[r])
  <2>1. \A e : e \in Entries(rules) <=>
           \E r \in 1..n : \E k \in 1..Len(rs[r].entries) : e = <<r, k>>
    BY <1>6, <1>7 DEF Entries
  <2>2. ASSUME knows, NEW r \in 1..n, NEW k \in 1..Len(rs[r].entries)
        PROVE  CborKnows(rs[r].entries[k])
    <3>1. <<r, k>> \in Entries(rules)
      BY <2>1
    <3>2. CborKnows(rules[<<r, k>>[1]].entries[<<r, k>>[2]])
      BY <2>2, <3>1
    <3>3. CborKnows(rules[r].entries[k])
      BY <3>2
    <3> QED BY <1>7, <3>3
  <2>3. ASSUME \A r \in 1..n : \A k \in 1..Len(rs[r].entries) : CborKnows(rs[r].entries[k]),
               NEW e \in Entries(rules)
        PROVE  CborKnows(rules[e[1]].entries[e[2]])
    <3>0. PICK r \in 1..n : \E k \in 1..Len(rs[r].entries) : e = <<r, k>>
      BY <2>1
    <3>1. PICK k \in 1..Len(rs[r].entries) : e = <<r, k>>
      BY <3>0
    <3>2. e[1] = r /\ e[2] = k
      BY <3>1
    <3>3. CborKnows(rules[r].entries[k])
      BY <1>7, <2>3
    <3> QED BY <3>2, <3>3
  <2>4. \A r \in 1..n : NatureKnown(rules[r]) <=> NatureKnown(rs[r])
    BY <1>7 DEF NatureKnown, NatureReferences
  <2> QED BY <1>6, <2>2, <2>3, <2>4
<1>10. document.defect \notin CborDefects <=> \A r \in 1..n : CborClean(r)
  <2>1. document.defect \in CborDefects => 1 \in 1..n
    <3> SUFFICES ASSUME document.defect \in CborDefects PROVE 1 \in 1..n
      OBVIOUS
    <3>1. document.defect # NoDefect
      BY DEF CborDefects, NoDefect
    <3>2. n # 0
      BY <1>1, <3>1, EmptySeq DEF n
    <3> QED BY <1>1, <3>2
  <2> QED BY <2>1 DEF CborClean
<1>11. (\A r \in 1..n : CborLoadable(rs[r])) <=>
         /\ \A r \in 1..n : /\ ValidRuleId(rs[r].id)
                            /\ Normalized(rs[r].entries)
                            /\ fine(r)
         /\ knows
  BY <1>9 DEF CborLoadable, CborReadable
<1> HIDE DEF knows, fine
<1>12. ASSUME Loads(rules), knows, document.defect \notin CborDefects
       PROVE  result = Ok(rules)
  <2>1. \A r \in 1..n : results[r] = Ok(rules[r])
    BY <1>5, <1>6, <1>8, <1>10, <1>11, <1>12
  <2>2. results = [r \in 1..n |-> Ok(rules[r])]
    BY <1>4, <2>1
  <2>3. AllOk(results) = Ok([r \in 1..n |-> rules[r]])
    BY <1>1, <1>6, <2>2, AllOkGiven
  <2>4. AllOk(results) = Ok(rules)
    BY <1>6, <2>3
  <2>5. ValidRuleIdPrefixes(rules)
    BY <1>8, <1>12
  <2> QED BY <1>2, <2>4, <2>5, Outcomes DEF RuleSet
<1>13. ASSUME result.ok PROVE Loads(rules) /\ knows /\ document.defect \notin CborDefects
  <2> DEFINE loaded == AllOk(results)
  <2>1. loaded.ok /\ ValidRuleIdPrefixes(loaded.value)
    BY <1>2, <1>13, Outcomes DEF RuleSet
  <2>2. \A r \in 1..n : results[r].ok
    BY <1>1, <1>4, <2>1, OneRefused
  <2>3. \A r \in 1..n : CborLoadable(rs[r]) /\ CborClean(r)
    BY <1>5, <2>2
  <2>4. \A r \in 1..n : results[r] = Ok(rules[r])
    BY <1>5, <1>6, <2>3
  <2>5. results = [r \in 1..n |-> Ok(rules[r])]
    BY <1>4, <2>4
  <2>6. AllOk(results) = Ok([r \in 1..n |-> rules[r]])
    BY <1>1, <1>6, <2>5, AllOkGiven
  <2>7. loaded = Ok(rules)
    BY <1>6, <2>6
  <2>8. loaded.value = rules
    BY <2>7, Outcomes
  <2> HIDE DEF loaded
  <2>9. ValidRuleIdPrefixes(rules)
    BY <2>1, <2>8
  <2> QED BY <1>8, <1>10, <1>11, <2>3, <2>9
<1>14. IF Loads(rules) /\ knows /\ document.defect \notin CborDefects
       THEN result = Ok(rules) ELSE ~result.ok
  BY <1>12, <1>13
<1> QED BY <1>14 DEF result, rules, knows, CborFaithful

(* A CBOR file written under one state of the registry and read under a    *)
(* later one, where none of its numbers has gone to another name: it loads *)
(* as exactly the rules that were written, as far as the format can say    *)
(* them, in whatever order entries and values stand in it, or, when it     *)
(* needs a number that is not assigned any more, is refused: for any       *)
(* rules, any SID file, any revisions before and after writing, and each   *)
(* way of writing and of spoiling a file.                                  *)
THEOREM CborRoundTrip == FilesSpec => []CborLoadsWhatIsWritten
<1> DEFINE Right == fromCbor # NotLoaded => CborFaithful(fromCbor)
           Edited == IF edition = NotWritten THEN fromCbor = NotLoaded
                     ELSE edition.value \in Seq(Identifiers \X Sids)
           Inv == document \in Documents /\ RegistryInv /\ Edited /\ Right
<1>1. FilesInit => Inv
  BY FilesStart DEF FilesInit
<1>2. Inv /\ [FilesNext]_fileVars => Inv'
  <2> SUFFICES ASSUME Inv, [FilesNext]_fileVars PROVE Inv'
    OBVIOUS
  <2>1. RegistryInv'
    BY FilesKeep
  <2>2. document' = document
    BY DEF FilesNext, Write, Revise, LoadJson, LoadCbor, fileVars
  <2>3. CASE UNCHANGED <<inserted, edition, fromCbor>>
    <3>1. CborFaithful(fromCbor)' <=> CborFaithful(fromCbor')
      BY <2>2, <2>3, CborFaithfulStays
    <3> QED BY <2>1, <2>2, <2>3, <3>1
  <2>4. CASE Write
    <3>1. edition' = Ok(inserted) /\ fromCbor' = fromCbor /\ fromCbor = NotLoaded
      BY <2>4 DEF Write
    <3>2. Ok(inserted).value = inserted
      BY Outcomes
    <3>3. inserted \in Seq(Identifiers \X Sids)
      BY DEF RegistryInv, RegistryTypeOK
    <3> QED BY <2>1, <2>2, <3>1, <3>2, <3>3
  <2>5. ASSUME NEW pair \in Revised, Revise(pair[1], pair[2]) PROVE Inv'
    BY <2>1, <2>2, <2>5 DEF Revise
  <2>6. CASE LoadCbor
    <3>1. /\ fromCbor' = FromCbor(Written(document.rules, WrittenCborRule))
          /\ inserted' = inserted /\ edition' = edition /\ edition # NotWritten
      BY <2>6 DEF LoadCbor, registryVars
    <3>2. CborFaithful(fromCbor')
      <4>1. FilesReady
        BY <3>1 DEF FilesReady
      <4> QED BY <3>1, <4>1, CborBack DEF CborFaithful
    <3>3. CborFaithful(fromCbor)' <=> CborFaithful(fromCbor')
      BY <2>2, <3>1, CborFaithfulStays
    <3> QED BY <2>1, <2>2, <3>1, <3>2, <3>3
  <2>7. CASE LoadJson
    BY <2>3, <2>7 DEF LoadJson, registryVars
  <2>8. CASE UNCHANGED fileVars
    BY <2>3, <2>8 DEF fileVars, registryVars
  <2> QED BY <2>4, <2>5, <2>6, <2>7, <2>8 DEF FilesNext
<1>3. Inv => CborLoadsWhatIsWritten
  BY DEF CborFaithful, CborLoadsWhatIsWritten, Meant
<1> QED BY <1>1, <1>2, <1>3, PTL DEF FilesSpec
=============================================================================
