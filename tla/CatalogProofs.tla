---------------------------- MODULE CatalogProofs ----------------------------
(***************************************************************************)
(* What a signed itemDetail says, for every catalog that satisfies         *)
(* CatalogAssumption, any number of assets and any taxonomy.               *)
(***************************************************************************)
EXTENDS Catalog, WellFoundedInduction, TLAPS

\* Every answer was computed from some description of the asset.
Justified(a) ==
  /\ asset[a] \in Holdings
  /\ \E desc \in Descriptions(asset[a]) : result[a] = attest(build_inventory_item(desc))

IInv ==
  /\ catalog \in Catalogs
  /\ asset = [a \in Asset |-> asset[a]] /\ result = [a \in Asset |-> result[a]]
  /\ \A a \in Asset : asset[a] \in Holdings \cup {None}
  /\ \A a \in Asset : result[a] # None => Justified(a)

\* An answer depends on the catalog and the description only.
LEMMA SameAnswer ==
  ASSUME catalog' = catalog
  PROVE  \A inv : attest(inv)' = attest(inv)
  BY DEF attest, resolve_catalog_item, CatalogError, ItemError, Matching, Candidates, Decisive,
     ExactCandidates, FamilyCandidates, WithFinish, Representable

\* The inductive invariant holds in every reachable state.
THEOREM Invariance == Spec => []IInv
  <1>1. Init => IInv
    BY DEF Init, IInv
  <1>2. IInv /\ [Next]_vars => IInv'
    <2> SUFFICES ASSUME IInv, [Next]_vars PROVE IInv'
      OBVIOUS
    <2>1. catalog' = catalog
      BY DEF Next, Attest, vars
    <2>2. \A inv : attest(inv)' = attest(inv)
      BY <2>1, SameAnswer
    <2>3. ASSUME NEW b \in Asset, result'[b] = result[b], asset'[b] = asset[b], result[b] # None
          PROVE  Justified(b)'
      <3>1. PICK desc \in Descriptions(asset[b]) : result[b] = attest(build_inventory_item(desc))
        BY <2>3 DEF IInv, Justified
      <3>2. attest(build_inventory_item(desc))' = attest(build_inventory_item(desc))
        BY <2>2
      <3>3. asset[b] \in Holdings
        BY <2>3 DEF IInv, Justified
      <3>4. QED
        BY <2>3, <3>1, <3>2, <3>3 DEF Justified
    <2>4. CASE UNCHANGED vars
      BY <2>1, <2>3, <2>4 DEF IInv, vars
    <2>5. ASSUME NEW a \in Asset, NEW held \in Holdings, NEW desc \in Descriptions(held),
                 Attest(a, held, desc)
          PROVE  IInv'
      <3>1. asset' = [asset EXCEPT ![a] = held]
            /\ result' = [result EXCEPT ![a] = attest(build_inventory_item(desc))]
        BY <2>5 DEF Attest
      <3>2. asset'[a] = held /\ result'[a] = attest(build_inventory_item(desc))
        BY <3>1 DEF IInv
      <3>3. Justified(a)'
        BY <2>2, <3>2 DEF Justified
      <3>4. \A b \in Asset \ {a} : result'[b] = result[b] /\ asset'[b] = asset[b]
        BY <3>1 DEF IInv
      <3>5. asset' = [b \in Asset |-> asset'[b]] /\ result' = [b \in Asset |-> result'[b]]
        BY <3>1 DEF IInv
      <3>6. ASSUME NEW b \in Asset, result'[b] # None PROVE Justified(b)'
        BY <2>3, <3>3, <3>4, <3>6
      <3>7. \A b \in Asset : asset'[b] \in Holdings \cup {None}
        BY <3>2, <3>4 DEF IInv
      <3>8. QED
        BY <2>1, <3>5, <3>6, <3>7 DEF IInv
    <2>6. QED
      BY <2>4, <2>5 DEF Next
  <1>3. QED
    BY <1>1, <1>2, PTL DEF Spec

-----------------------------------------------------------------------------
\* The item that the resolver finds has the defindex, paint, tint and type of the
\* asset; without paint it is the very item.
LEMMA ResolvedItem ==
  ASSUME catalog \in Catalogs, NEW held \in Holdings, NEW desc \in Descriptions(held),
         NEW inv, inv = build_inventory_item(desc), CatalogError(inv) = None
  PROVE  LET item == resolve_catalog_item(inv) IN
         /\ \E k \in DOMAIN catalog : item = catalog[k]
         /\ item \in SteamItems
         /\ item.defindex = held.item.defindex
         /\ item.paintindex = held.item.paintindex
         /\ item.item_type = held.item.item_type
         /\ item.tint_id = held.item.tint_id
         /\ ~Painted(held.item) => item = held.item
  <1> DEFINE own == held.item
  <1>1. own \in SteamItems
    BY DEF Holdings
  <1>2. /\ inv.market_hash_name = desc.market_hash_name /\ inv.exterior = desc.exterior
        /\ inv.finish_catalog = desc.finish_catalog
    BY DEF build_inventory_item
  <1>3. /\ desc.market_hash_name \in {own.name, WithoutWear(own.name)}
        /\ ~Painted(own) => desc.market_hash_name = own.name
        /\ desc.finish_catalog \in {own.paintindex, None}
    BY DEF Descriptions
  <1>4. /\ Matching(inv) # {} /\ Candidates(inv) # {} /\ Decisive(inv)
    BY CatalogAssumption DEF CatalogAssumption, CatalogError, Errors
  <1>5. Matching(inv) \subseteq Candidates(inv) /\ Candidates(inv) \subseteq DOMAIN catalog
    BY DEF Matching, Candidates, WithFinish, ExactCandidates, FamilyCandidates
  <1>6. /\ DOMAIN catalog \subseteq Nat
        /\ \A k \in DOMAIN catalog : catalog[k] \in SteamItems
        /\ \A k, l \in DOMAIN catalog : catalog[k] = catalog[l] => k = l
        /\ \A k \in DOMAIN catalog, i \in SteamItems :
             i.name = catalog[k].name => \E l \in DOMAIN catalog : catalog[l] = i
    BY CatalogAssumption DEF CatalogAssumption
  <1>7. \A i, j \in SteamItems : PairAssumption(i, j) /\ ItemShape(i)
    BY CatalogAssumption DEF CatalogAssumption
  \* The finish leaves one candidate by name, because a name and a paint are one item.
  <1>8. PICK k : Matching(inv) = {k}
    <2>1. CASE \E k \in Matching(inv) : Matching(inv) = {k}
      BY <2>1
    <2>2. CASE inv.finish_catalog # None /\ ExactCandidates(inv) # {}
      <3>1. ASSUME NEW k \in Matching(inv), NEW l \in Matching(inv) PROVE k = l
        <4>1. /\ catalog[k].name = inv.market_hash_name /\ catalog[l].name = inv.market_hash_name
              /\ catalog[k].paintindex = inv.finish_catalog /\ catalog[l].paintindex = inv.finish_catalog
          BY <2>2 DEF Matching, Candidates, WithFinish, ExactCandidates
        <4>2. catalog[k] \in SteamItems /\ catalog[l] \in SteamItems
          BY <1>5, <1>6
        <4>3. catalog[k] = catalog[l]
          BY <1>7, <2>2, <4>1, <4>2 DEF PairAssumption, Painted
        <4>4. QED
          BY <1>5, <1>6, <4>3
      <3>2. QED
        BY <1>4, <3>1
    <2>3. QED
      BY <1>4, <2>1, <2>2 DEF Decisive
  <1>9. k \in DOMAIN catalog /\ resolve_catalog_item(inv) = catalog[k] /\ catalog[k] \in SteamItems
    <2>1. k \in DOMAIN catalog
      BY <1>5, <1>8
    <2>2. k \in Nat
      BY <1>6, <2>1
    <2>3. (CHOOSE j \in {k} : \A l \in {k} : j <= l) = k
      BY <2>2
    <2>4. QED
      BY <1>6, <1>8, <2>1, <2>3 DEF resolve_catalog_item
  <1>10. ASSUME k \in ExactCandidates(inv) PROVE catalog[k] = own
    <2>1. catalog[k].name = inv.market_hash_name
      BY <1>10 DEF ExactCandidates
    <2>2. catalog[k].name = own.name
      BY <1>1, <1>2, <1>3, <1>7, <1>9, <2>1 DEF PairAssumption
    <2>3. CASE inv.finish_catalog = None
      <3>1. Matching(inv) = ExactCandidates(inv)
        BY <2>3 DEF Matching, Candidates
      <3>2. PICK l \in DOMAIN catalog : catalog[l] = own
        BY <1>1, <1>6, <1>9, <2>2
      <3>3. l \in ExactCandidates(inv)
        BY <2>1, <2>2, <3>2 DEF ExactCandidates
      <3>4. QED
        BY <1>8, <3>1, <3>2, <3>3
    <2>4. CASE inv.finish_catalog # None
      <3>1. catalog[k].paintindex = own.paintindex /\ own.paintindex # None
        BY <1>2, <1>3, <1>8, <2>4 DEF Matching, WithFinish
      <3>2. QED
        BY <1>1, <1>7, <1>9, <2>2, <3>1 DEF PairAssumption, Painted
    <2>5. QED
      BY <2>3, <2>4
  <1>11. ASSUME k \notin ExactCandidates(inv)
         PROVE  /\ Painted(own) /\ Painted(catalog[k])
                /\ catalog[k].paintindex = own.paintindex
                /\ catalog[k].defindex = own.defindex
    <2>1. inv.finish_catalog # None /\ k \in FamilyCandidates(inv) /\ catalog[k].paintindex = inv.finish_catalog
      BY <1>8, <1>11 DEF Matching, Candidates, WithFinish
    <2>2. catalog[k].paintindex = own.paintindex /\ Painted(own) /\ Painted(catalog[k])
      BY <1>2, <1>3, <2>1 DEF Painted
    <2>3. inv.market_hash_name.weapon = catalog[k].name.weapon
      BY <2>1 DEF FamilyCandidates, parse_family_from_market_hash_name
    <2>4. inv.market_hash_name.weapon = own.name.weapon
      <3>1. WithoutWear(own.name).weapon = own.name.weapon
        BY DEF WithoutWear
      <3>2. QED
        BY <1>2, <1>3, <3>1
    <2>5. PairAssumption(catalog[k], own)
      BY <1>1, <1>7, <1>9
    <2>6. catalog[k].name.weapon = own.name.weapon => catalog[k].defindex = own.defindex
      BY <2>2, <2>5 DEF PairAssumption
    <2>7. QED
      BY <2>2, <2>3, <2>4, <2>6
  <1>12. CASE k \in ExactCandidates(inv)
    BY <1>9, <1>10, <1>12
  <1>13. CASE k \notin ExactCandidates(inv)
    <2>1. ItemShape(own) /\ ItemShape(catalog[k])
      BY <1>1, <1>7, <1>9
    <2>2. Painted(own) /\ Painted(catalog[k])
      BY <1>11, <1>13
    <2>3. own.item_type = "skin" /\ own.tint_id = None
      BY <2>1, <2>2 DEF ItemShape
    <2>4. catalog[k].item_type = "skin" /\ catalog[k].tint_id = None
      BY <2>1, <2>2 DEF ItemShape
    <2>5. QED
      BY <1>9, <1>11, <1>13, <2>3, <2>4
  <1>14. QED
    BY <1>12, <1>13
-----------------------------------------------------------------------------
\* What is encoded for an asset, by what the asset is.
AssetIdentity(held) ==
  LET item       == held.item
      paintindex == UnwrapOr(item.paintindex, 0)
      paintseed  == IF Painted(item) THEN held.paintseed ELSE 0
      stattrak   == StartsWith(item.name.words, "StatTrak") \/ item.name.words = <<"StatTrak">>
      souvenir   == StartsWith(item.name.words, "Souvenir") \/ item.name.words = <<"Souvenir">>
  IN [defindex |-> item.defindex, paintindex |-> paintindex, paintseed |-> paintseed,
      tint_id |-> IF item.item_type = "graffiti" THEN item.tint_id ELSE 0,
      quality |-> quality_from(stattrak, souvenir),
      floatvalue |-> IF Painted(item) THEN held.floatvalue ELSE 0,
      pattern_tier |-> TierOfKey(to_catalog_key(item.name), item.defindex, paintindex, paintseed),
      is_slab |-> Slab(item)]

\* A name has the key of the name without its wear.
LEMMA KeyWithoutWear ==
  ASSUME NEW name
  PROVE  to_catalog_key(WithoutWear(name)) = to_catalog_key(name)
  <1>1. WithoutWear(WithoutWear(name)) = WithoutWear(name) /\ WithoutWear(name).words = name.words
    BY DEF WithoutWear
  <1>2. QED
    BY <1>1 DEF to_catalog_key

\* The detail that is signed is the encoding of what the asset is, whatever
\* description of it the request was answered from.
LEMMA SignedDetail ==
  ASSUME catalog \in Catalogs, NEW held \in Holdings, NEW desc \in Descriptions(held),
         attest(build_inventory_item(desc)).error = None
  PROVE  attest(build_inventory_item(desc)).detail = encode_item_detail(AssetIdentity(held))
  <1> DEFINE inv == build_inventory_item(desc)
             item == resolve_catalog_item(inv)
             own == held.item
  <1>1. CatalogError(inv) = None /\ ItemError(item, inv) = None
    BY DEF attest
  <1>2. attest(inv).detail = encode_item_detail(identity(item, inv))
    BY <1>1 DEF attest
  <1>3. /\ item.defindex = own.defindex /\ item.paintindex = own.paintindex
        /\ item.item_type = own.item_type /\ item.tint_id = own.tint_id
    BY <1>1, ResolvedItem
  <1>4. /\ Painted(item) <=> Painted(own)
        /\ Slab(item) <=> Slab(own)
    BY <1>3 DEF Painted, Slab
  <1>5. /\ desc.market_hash_name \in {own.name, WithoutWear(own.name)}
        /\ desc.tag = own.name.words
        /\ desc.floatvalue \in {held.floatvalue, None} /\ desc.paintseed \in {held.paintseed, None}
    BY DEF Descriptions
  <1>6. /\ inv.market_hash_name = desc.market_hash_name
        /\ inv.floatvalue = desc.floatvalue /\ inv.paintseed = desc.paintseed
        /\ inv.is_stattrak = (StartsWith(desc.market_hash_name.words, "StatTrak") \/ desc.tag = <<"StatTrak">>)
        /\ inv.is_souvenir = (StartsWith(desc.market_hash_name.words, "Souvenir") \/ desc.tag = <<"Souvenir">>)
    BY DEF build_inventory_item
  <1>7. desc.market_hash_name.words = own.name.words
    BY <1>5 DEF WithoutWear
  <1>8. /\ to_catalog_key(inv.market_hash_name) = to_catalog_key(own.name)
    BY <1>5, <1>6, KeyWithoutWear
  \* A property that is missing is an error.
  <1>9. Painted(own) => inv.floatvalue = held.floatvalue /\ inv.paintseed = held.paintseed
    <2>1. Painted(item) => inv.floatvalue # None /\ inv.paintseed # None
      BY <1>1, CatalogAssumption DEF ItemError, CatalogAssumption, Errors
    <2>2. QED
      BY <1>4, <1>5, <1>6, <2>1
  <1>10. identity(item, inv) = AssetIdentity(held)
    <2> HIDE DEF inv, item, own
    <2>1. quality_from(inv.is_stattrak, inv.is_souvenir)
            = quality_from(StartsWith(own.name.words, "StatTrak") \/ own.name.words = <<"StatTrak">>,
                           StartsWith(own.name.words, "Souvenir") \/ own.name.words = <<"Souvenir">>)
      BY <1>5, <1>6, <1>7
    <2>2. UnwrapOr(item.paintindex, 0) = UnwrapOr(own.paintindex, 0)
      BY <1>3
    <2>3. (IF Painted(item) THEN inv.paintseed ELSE 0) = (IF Painted(own) THEN held.paintseed ELSE 0)
      BY <1>4, <1>9
    <2>4. (IF Painted(item) THEN inv.floatvalue ELSE 0) = (IF Painted(own) THEN held.floatvalue ELSE 0)
      BY <1>4, <1>9
    <2>5. Slab(item) = Slab(own)
      BY <1>3 DEF Slab
    <2>6. (IF item.item_type = "graffiti" THEN item.tint_id ELSE 0)
            = (IF own.item_type = "graffiti" THEN own.tint_id ELSE 0)
      BY <1>3
    <2>7. QED
      BY <1>3, <1>8, <2>1, <2>2, <2>3, <2>4, <2>5, <2>6
      DEF identity, AssetIdentity, classify_special_pattern_tier, own
  <1>11. QED
    BY <1>2, <1>10

\* DetailNeverChanges holds of every behaviour: two attestations of an asset that
\* both succeed sign the same detail.
THEOREM DetailIsStable == Spec => DetailNeverChanges
  <1>1. ASSUME IInv, IInv', [Next]_vars, NEW a \in Asset, Signed(a), Signed(a)'
        PROVE  result'[a].detail = result[a].detail
    <2>1. catalog' = catalog /\ catalog \in Catalogs
      BY <1>1 DEF Next, Attest, vars, IInv
    <2>2. PICK d \in Descriptions(asset[a]) : result[a] = attest(build_inventory_item(d))
      BY <1>1 DEF IInv, Justified, Signed
    <2>3. PICK e \in Descriptions(asset'[a]) : result'[a] = attest(build_inventory_item(e))'
      BY <1>1 DEF IInv, Justified, Signed
    <2>4. result'[a] = attest(build_inventory_item(e))
      BY <2>1, <2>3, SameAnswer
    <2>5. asset'[a] = asset[a] /\ asset[a] \in Holdings
      <3>1. asset[a] \in Holdings /\ asset[a] # None
        BY <1>1, NoneAssumption DEF IInv, Justified, Signed
      <3>2. CASE UNCHANGED vars
        BY <3>1, <3>2 DEF vars
      <3>3. ASSUME NEW b \in Asset, NEW held \in Holdings, NEW desc \in Descriptions(held),
                   Attest(b, held, desc)
            PROVE  asset'[a] = asset[a]
        BY <1>1, <3>1, <3>3 DEF Attest, IInv
      <3>4. QED
        BY <1>1, <3>1, <3>2, <3>3 DEF Next
    <2>6. result[a].detail = encode_item_detail(AssetIdentity(asset[a]))
      BY <1>1, <2>1, <2>2, <2>5, SignedDetail DEF Signed
    <2>7. result'[a].detail = encode_item_detail(AssetIdentity(asset[a]))
      BY <1>1, <2>1, <2>4, <2>5, SignedDetail DEF Signed
    <2>8. QED
      BY <2>6, <2>7
  <1>2. IInv /\ IInv' /\ [Next]_vars
          => [\A a \in Asset : Signed(a) /\ Signed(a)' => result'[a].detail = result[a].detail]_vars
    BY <1>1
  <1>3. QED
    BY <1>2, Invariance, PTL DEF Spec, DetailNeverChanges

-----------------------------------------------------------------------------
(* Numbers *)

\* A nonempty set of numbers has a least one.
LEMMA LeastOf ==
  ASSUME NEW S \in SUBSET Nat, S # {}
  PROVE  \E i \in S : \A j \in S : i <= j
  <1>1. PICK i \in S : \A j \in S : <<j, i>> \notin OpToRel(<, Nat)
    BY NatLessThanWellFounded, WFMin
  <1>2. \A j \in S : <<j, i>> \in Nat \X Nat /\ ~(j < i)
    BY <1>1 DEF OpToRel
  <1>3. \A j \in S : j \in Nat /\ i \in Nat /\ (~(j < i) => i <= j)
    OBVIOUS
  <1>4. QED
    BY <1>2, <1>3

\* Whatever family, rule and bucket the classifier comes to, the tier is a number.
LEMMA TierIsNat ==
  ASSUME NEW key, NEW defindex, NEW paint_index, NEW paint_seed
  PROVE  TierOfKey(key, defindex, paint_index, paint_seed) \in Nat
  <1> DEFINE families == {i \in DOMAIN Families : MatchesAny(key, Families[i].catalog_matchers)}
             family == FirstMatch(Families, families)
  <1>1. ASSUME families # {}
        PROVE  \A b \in DOMAIN family.buckets : family.buckets[b] \in Nat
    <2>1. families \in SUBSET Nat /\ families \subseteq DOMAIN Families
      BY TaxonomyAssumption DEF TaxonomyAssumption
    <2>2. PICK i \in families : \A j \in families : i <= j
      BY <1>1, <2>1, LeastOf
    <2>3. (CHOOSE k \in families : \A j \in families : k <= j) \in families
      BY <2>2
    <2>4. QED
      BY <2>1, <2>3, TaxonomyAssumption DEF TaxonomyAssumption, FirstMatch
  <1>2. QED
    BY <1>1 DEF TierOfKey

-----------------------------------------------------------------------------
LEMMA UpToDef ==
  ASSUME NEW limit \in Nat, NEW n
  PROVE  n \in UpTo(limit) <=> n \in Nat /\ n <= limit
  BY SMT DEF UpTo

\* A defindex is split into an upper and a lower part that make it up again.
LEMMA SplitDefindex ==
  ASSUME NEW n \in Nat, n <= 268435455
  PROVE  /\ n % 8192 \in Nat /\ n % 8192 <= 8191 
         /\ (n \div 8192) % 32768 = n \div 8192 /\ n \div 8192 \in Nat /\ n \div 8192 <= 32767
         /\ ((n \div 8192) * 8192) + (n % 8192) = n
  <1>1. /\ n % 8192 \in Nat /\ n % 8192 <= 8191 /\ n \div 8192 \in Nat
        /\ ((n \div 8192) * 8192) + (n % 8192) = n
    BY SMT
  <1>2. n \div 8192 <= 32767
    BY SMT
  <1>3. ASSUME NEW m \in Nat, m <= 32767 PROVE m % 32768 = m
    BY SMT, <1>3
  <1>4. QED
    BY SMT, <1>1, <1>2, <1>3

\* The tint and the upper part share a field and come apart again.
LEMMA SplitMid ==
  ASSUME NEW t \in Nat, NEW u \in Nat, t <= 31, u <= 32767
  PROVE  /\ (t * 32768) + u \in Nat /\ (t * 32768) + u <= 1048575
         /\ ((t * 32768) + u) % 32768 = u /\ ((t * 32768) + u) \div 32768 = t
  BY SMT

\* A float fits its field once it is rounded.
LEMMA RoundedFloat ==
  ASSUME NEW f \in Nat, f <= 10000000
  PROVE  /\ (f + 5) \div 10 \in Nat /\ (f + 5) \div 10 <= 1000000
         /\ ((f + 5) \div 10) % 1048576 = (f + 5) \div 10
  <1>1. (f + 5) \div 10 \in Nat /\ (f + 5) \div 10 <= 1000000
    BY SMT
  <1>2. ASSUME NEW m \in Nat, m <= 1000000 PROVE m % 1048576 = m
    BY SMT, <1>2
  <1>3. QED
    BY SMT, <1>1, <1>2

-----------------------------------------------------------------------------
\* What the encoder may be given: the ranges of what a signed item consists of.
Encodable(id) ==
  /\ id.defindex \in Nat /\ id.defindex <= 268435455
  /\ id.tint_id \in Nat /\ id.tint_id <= 31
  /\ id.paintindex \in Nat /\ id.paintindex <= 65535
  /\ id.paintseed \in Nat /\ id.paintseed <= 1000
  /\ id.floatvalue \in Nat /\ id.floatvalue <= 10000000
  /\ id.pattern_tier \in Nat /\ id.is_slab \in BOOLEAN

\* The fields of either mode.
LEMMA ExtendedFields ==
  ASSUME NEW id, Encodable(id)
  PROVE  LET upper == id.defindex \div 8192 IN
         /\ upper \in Nat /\ upper <= 32767 /\ (upper * 8192) + (id.defindex % 8192) = id.defindex
         /\ id.defindex % 8192 \in Nat /\ id.defindex % 8192 <= 8191
         /\ Extended(id) = [paint |-> 0, mid |-> (id.tint_id * 32768) + upper, def |-> id.defindex % 8192,
                            seed |-> 1023, tier |-> IF id.is_slab THEN 4 ELSE 0,
                            quality |-> encode_quality(id.quality)]
  <1>1. AtMost(id.tint_id, 31) = id.tint_id
    BY SMT DEF AtMost, Encodable
  <1>2. id.defindex \in Nat /\ id.defindex <= 268435455
    BY SMT DEF Encodable
  <1>3. QED
    BY SMT, <1>1, <1>2, SplitDefindex DEF Extended

LEMMA StandardFields ==
  ASSUME NEW id, Encodable(id), ~UseExtended(id.defindex, id.tint_id)
  PROVE  LET micros == (id.floatvalue + 5) \div 10 IN
         /\ micros \in Nat /\ micros <= 1000000 /\ id.tint_id = 0
         /\ id.defindex <= 8191
         /\ Standard(id) = [paint |-> id.paintindex, mid |-> micros, def |-> id.defindex,
                            seed |-> id.paintseed, tier |-> AtMost(id.pattern_tier, 7),
                            quality |-> encode_quality(id.quality)]
  <1>1. /\ id.defindex \in Nat /\ id.defindex <= 8191 /\ id.tint_id = 0
        /\ id.paintindex \in Nat /\ id.paintindex <= 65535
        /\ id.paintseed \in Nat /\ id.paintseed <= 1000
        /\ id.floatvalue \in Nat /\ id.floatvalue <= 10000000
    BY SMT DEF Encodable, UseExtended
  <1>2. id.paintindex % 65536 = id.paintindex
    BY SMT, <1>1
  <1>3. id.defindex % 8192 = id.defindex
    BY SMT, <1>1
  <1>4. AtMost(id.paintseed, 1000) = id.paintseed /\ id.paintseed % 1024 = id.paintseed
    BY SMT, <1>1 DEF AtMost
  <1>5. QED
    BY SMT, <1>1, <1>2, <1>3, <1>4, RoundedFloat DEF Standard

LEMMA QualityFits ==
  ASSUME NEW q
  PROVE  encode_quality(q) \in {0, 1, 2}
  BY DEF encode_quality

\* The fields of an encoded detail fit their bits.
LEMMA EncodedFits ==
  ASSUME NEW id, Encodable(id)
  PROVE  encode_item_detail(id) \in Detail
  <1>1. encode_quality(id.quality) \in UpTo(3)
    BY SMT, QualityFits, UpToDef
  <1>2. CASE UseExtended(id.defindex, id.tint_id)
    <2> DEFINE upper == id.defindex \div 8192
    <2>1. id.tint_id \in Nat /\ id.tint_id <= 31
      BY SMT DEF Encodable
    <2>2. (id.tint_id * 32768) + upper \in UpTo(1048575)
      <3>1. upper \in Nat /\ upper <= 32767
        BY SMT, ExtendedFields
      <3> HIDE DEF upper
      <3>2. (id.tint_id * 32768) + upper \in Nat /\ (id.tint_id * 32768) + upper <= 1048575
        BY SMT, <2>1, <3>1, SplitMid
      <3>3. QED
        BY SMT, <3>2, UpToDef
    <2>3. id.defindex % 8192 \in UpTo(8191)
      BY SMT, ExtendedFields, UpToDef
    <2>4. 0 \in UpTo(65535) /\ 1023 \in UpTo(1023) /\ (IF id.is_slab THEN 4 ELSE 0) \in UpTo(7)
      BY SMT, UpToDef
    <2>5. encode_item_detail(id) = [paint |-> 0, mid |-> (id.tint_id * 32768) + upper,
                                    def |-> id.defindex % 8192, seed |-> 1023,
                                    tier |-> IF id.is_slab THEN 4 ELSE 0,
                                    quality |-> encode_quality(id.quality)]
      BY SMT, <1>2, ExtendedFields DEF encode_item_detail
    <2>6. QED
      BY SMT, <1>1, <2>2, <2>3, <2>4, <2>5 DEF Detail
  <1>3. CASE ~UseExtended(id.defindex, id.tint_id)
    <2> DEFINE micros == (id.floatvalue + 5) \div 10
    <2>1. micros \in UpTo(1048575) /\ id.defindex \in UpTo(8191)
      BY SMT, <1>3, StandardFields, UpToDef DEF Encodable
    <2>2. id.paintindex \in UpTo(65535) /\ id.paintseed \in UpTo(1023)
      BY SMT, UpToDef DEF Encodable
    <2>3. AtMost(id.pattern_tier, 7) \in UpTo(7)
      BY SMT, UpToDef DEF Encodable, AtMost
    <2>4. encode_item_detail(id) = [paint |-> id.paintindex, mid |-> micros, def |-> id.defindex,
                                    seed |-> id.paintseed, tier |-> AtMost(id.pattern_tier, 7),
                                    quality |-> encode_quality(id.quality)]
      BY SMT, <1>3, StandardFields DEF encode_item_detail
    <2>5. QED
      BY SMT, <1>1, <2>1, <2>2, <2>3, <2>4 DEF Detail
  <1>4. QED
    BY <1>2, <1>3

\* The layout can be read back: a detail decodes to what was encoded.
LEMMA EncodingReadsBack ==
  ASSUME NEW id, Encodable(id)
  PROVE  LET d == Decoded(encode_item_detail(id))
             extended == UseExtended(id.defindex, id.tint_id)
         IN /\ d.defindex = id.defindex /\ d.tint = id.tint_id
            /\ d.slab <=> id.is_slab /\ extended
            /\ extended => d.paint = 0
            /\ ~extended => /\ d.paint = id.paintindex /\ d.seed = id.paintseed
                            /\ d.micros = (id.floatvalue + 5) \div 10
  <1>1. CASE UseExtended(id.defindex, id.tint_id)
    <2> DEFINE upper == id.defindex \div 8192
               mid == (id.tint_id * 32768) + upper
    <2>1. id.tint_id \in Nat /\ id.tint_id <= 31 /\ id.is_slab \in BOOLEAN
      BY SMT DEF Encodable
    <2> HIDE DEF upper
    <2>2. mid % 32768 = upper /\ mid \div 32768 = id.tint_id
      <3>1. upper \in Nat /\ upper <= 32767
        BY SMT, ExtendedFields DEF upper
      <3>2. QED
        BY SMT, <2>1, <3>1, SplitMid
    <2>3. ((mid % 32768) * 8192) + (id.defindex % 8192) = id.defindex
      BY SMT, <2>2, ExtendedFields DEF upper
    <2> HIDE DEF mid
    <2>4. encode_item_detail(id) = [paint |-> 0, mid |-> mid,
                                    def |-> id.defindex % 8192, seed |-> 1023,
                                    tier |-> IF id.is_slab THEN 4 ELSE 0,
                                    quality |-> encode_quality(id.quality)]
      BY SMT, <1>1, ExtendedFields DEF encode_item_detail, mid, upper
    <2>5. Decoded(encode_item_detail(id))
            = [defindex |-> id.defindex, tint |-> id.tint_id,
               slab |-> (IF id.is_slab THEN 4 ELSE 0) = 4, paint |-> 0, seed |-> 0, micros |-> 0]
      BY SMT, <2>2, <2>3, <2>4 DEF Decoded
    <2>6. QED
      BY SMT, <1>1, <2>1, <2>5
  <1>2. CASE ~UseExtended(id.defindex, id.tint_id)
    <2> DEFINE micros == (id.floatvalue + 5) \div 10
    <2> HIDE DEF micros
    <2>1. encode_item_detail(id) = [paint |-> id.paintindex, mid |-> micros, def |-> id.defindex,
                                    seed |-> id.paintseed, tier |-> AtMost(id.pattern_tier, 7),
                                    quality |-> encode_quality(id.quality)]
      BY SMT, <1>2, StandardFields DEF encode_item_detail, micros
    <2>2. id.paintseed # 1023 /\ id.tint_id = 0
      BY SMT, <1>2, StandardFields DEF Encodable
    <2>3. Decoded(encode_item_detail(id))
            = [defindex |-> id.defindex, tint |-> 0, slab |-> FALSE, paint |-> id.paintindex,
               seed |-> id.paintseed, micros |-> micros]
      BY SMT, <2>1, <2>2 DEF Decoded
    <2>4. QED
      BY SMT, <1>2, <2>2, <2>3 DEF micros
  <1>3. QED
    BY <1>1, <1>2

-----------------------------------------------------------------------------
\* What an answer without an error says about the item of the asset.
LEMMA SignedItem ==
  ASSUME catalog \in Catalogs, NEW held \in Holdings, NEW desc \in Descriptions(held),
         attest(build_inventory_item(desc)).error = None
  PROVE  /\ held.item.defindex # None
         /\ held.item.item_type = "graffiti" => held.item.tint_id # None
         /\ ~Painted(held.item) =>
              Representable(held.item) /\ \E k \in DOMAIN catalog : catalog[k] = held.item
  <1> DEFINE inv == build_inventory_item(desc)
             item == resolve_catalog_item(inv)
  <1>1. CatalogError(inv) = None /\ ItemError(item, inv) = None
    BY DEF attest
  <1>2. /\ \E k \in DOMAIN catalog : item = catalog[k]
        /\ item.defindex = held.item.defindex /\ item.item_type = held.item.item_type
        /\ item.tint_id = held.item.tint_id
        /\ ~Painted(held.item) => item = held.item
    BY <1>1, ResolvedItem
  <1>3. /\ item.defindex # None /\ (item.item_type = "graffiti" => item.tint_id # None)
        /\ Representable(item)
    BY <1>1, CatalogAssumption DEF ItemError, CatalogAssumption, Errors
  <1> HIDE DEF item
  <1>4. QED
    BY <1>2, <1>3

\* What is encoded for such an asset is in range, field by field what the asset is;
\* a painted one is never in extended mode.
LEMMA AssetEncodable ==
  ASSUME NEW held \in Holdings, held.item.defindex # None,
         held.item.item_type = "graffiti" => held.item.tint_id # None
  PROVE  LET id == AssetIdentity(held)
             item == held.item
         IN /\ Encodable(id)
            /\ id.defindex = item.defindex /\ id.tint_id = UnwrapOr(item.tint_id, 0)
            /\ id.paintindex = UnwrapOr(item.paintindex, 0) /\ id.is_slab = Slab(item)
            /\ Painted(item) => /\ ~UseExtended(id.defindex, id.tint_id)
                               /\ id.paintseed = held.paintseed /\ id.floatvalue = held.floatvalue
            /\ ~Painted(item) <=> id.paintindex = 0
  <1> DEFINE id == AssetIdentity(held)
             item == held.item
  <1>1. /\ item \in SteamItems
        /\ Painted(item) => held.paintseed \in Seeds /\ held.floatvalue \in Floats
    BY DEF Holdings
  <1>2. ItemRanges(item) /\ ItemShape(item)
    BY <1>1, CatalogAssumption DEF CatalogAssumption
  <1>3. None \notin Nat
    BY CatalogAssumption DEF CatalogAssumption
  <1>4. /\ id.defindex = item.defindex
        /\ id.tint_id = IF item.item_type = "graffiti" THEN item.tint_id ELSE 0
        /\ id.paintindex = UnwrapOr(item.paintindex, 0) /\ id.is_slab = Slab(item)
        /\ id.paintseed = IF Painted(item) THEN held.paintseed ELSE 0
        /\ id.floatvalue = IF Painted(item) THEN held.floatvalue ELSE 0
        /\ id.pattern_tier \in Nat
    BY TierIsNat DEF AssetIdentity
  <1> HIDE DEF id, item
  <1>5. item.defindex \in Nat /\ item.defindex <= 268435455
    BY SMT, <1>2, UpToDef DEF ItemRanges, item
  <1>6. id.tint_id = UnwrapOr(item.tint_id, 0)
    BY <1>2, <1>4 DEF ItemShape, UnwrapOr, item
  <1>7. id.tint_id \in Nat /\ id.tint_id <= 31
    BY SMT, <1>2, <1>6, UpToDef DEF ItemRanges, UnwrapOr
  <1>8. /\ id.paintindex \in Nat /\ id.paintindex <= 65535
        /\ ~Painted(item) <=> id.paintindex = 0
    <2>1. CASE item.paintindex = None
      BY SMT, <1>4, <2>1 DEF UnwrapOr, Painted
    <2>2. CASE item.paintindex # None
      <3>1. item.paintindex \in Nat /\ item.paintindex <= 65535 /\ item.paintindex # 0
        BY SMT, <1>2, <2>2, UpToDef DEF ItemRanges
      <3>2. QED
        BY SMT, <1>4, <2>2, <3>1 DEF UnwrapOr, Painted
    <2>3. QED
      BY <2>1, <2>2
  <1>9. /\ id.paintseed \in Nat /\ id.paintseed <= 1000
        /\ id.floatvalue \in Nat /\ id.floatvalue <= 10000000
    <2>1. CASE Painted(item)
      <3>1. held.paintseed \in UpTo(1000) /\ held.floatvalue \in UpTo(10000000)
        BY SMT, <1>1, <2>1, EvidenceAssumption DEF EvidenceAssumption
      <3>2. QED
        BY SMT, <1>4, <2>1, <3>1, UpToDef
    <2>2. CASE ~Painted(item)
      BY SMT, <1>4, <2>2
    <2>3. QED
      BY <2>1, <2>2
  <1>10. Painted(item) => ~UseExtended(id.defindex, id.tint_id)
    <2>1. SUFFICES ASSUME Painted(item) PROVE ~UseExtended(id.defindex, id.tint_id)
      OBVIOUS
    <2>2. item.defindex \in Nat /\ item.defindex <= 8191
      BY SMT, <1>2, <2>1, UpToDef DEF ItemRanges
    <2>3. id.tint_id = 0
      BY <1>2, <1>6, <2>1 DEF ItemShape, UnwrapOr
    <2>4. QED
      BY SMT, <1>4, <2>2, <2>3 DEF UseExtended
  <1>11. id.is_slab \in BOOLEAN
    BY <1>4 DEF Slab
  <1>12. Encodable(id)
    BY SMT, <1>4, <1>5, <1>7, <1>8, <1>9, <1>11 DEF Encodable
  <1>13. QED
    BY <1>4, <1>6, <1>8, <1>10, <1>12 DEF id, item

\* A signed detail is the encoding of the asset, which has what the encoder needs.
LEMMA SignedAsset ==
  ASSUME IInv, NEW a \in Asset, Signed(a)
  PROVE  LET item == asset[a].item IN
         /\ asset[a] \in Holdings
         /\ result[a].detail = encode_item_detail(AssetIdentity(asset[a]))
         /\ item.defindex # None /\ (item.item_type = "graffiti" => item.tint_id # None)
         /\ ~Painted(item) => Representable(item) /\ \E k \in DOMAIN catalog : catalog[k] = item
  <1>1. asset[a] \in Holdings /\ catalog \in Catalogs
    BY DEF IInv, Justified, Signed
  <1>2. PICK desc \in Descriptions(asset[a]) : result[a] = attest(build_inventory_item(desc))
    BY DEF IInv, Justified, Signed
  <1>3. attest(build_inventory_item(desc)).error = None
    BY <1>2 DEF Signed
  <1>4. QED
    BY <1>1, <1>2, <1>3, SignedDetail, SignedItem

\* An answer has one of the errors and no detail, or no error.
LEMMA AnswerShape ==
  ASSUME NEW inv
  PROVE  \/ attest(inv).error \in Errors /\ attest(inv).detail = None
         \/ attest(inv).error = None
  <1> DEFINE item == resolve_catalog_item(inv)
             error == IF CatalogError(inv) # None THEN CatalogError(inv) ELSE ItemError(item, inv)
  <1>1. CatalogError(inv) \in Errors \cup {None}
    BY DEF CatalogError, Errors
  <1>2. ItemError(item, inv) \in Errors \cup {None}
    BY DEF ItemError, Errors
  <1>3. error \in Errors \cup {None}
    BY <1>1, <1>2
  <1>4. attest(inv).error = error /\ (error # None => attest(inv).detail = None)
    BY DEF attest
  <1>5. QED
    BY <1>3, <1>4

\* TypeOK holds of every behaviour: whatever the catalog, the taxonomy and the asset,
\* the fields that encode_item_detail shifts together fit their bits, so that none
\* spills into its neighbour.
THEOREM TypeCorrect == Spec => []TypeOK
  <1>1. IInv => TypeOK
    <2> SUFFICES ASSUME IInv PROVE TypeOK
      OBVIOUS
    <2>1. ASSUME NEW a \in Asset, result[a] # None
          PROVE  /\ asset[a] # None
                 /\ \/ result[a].error \in Errors /\ result[a].detail = None
                    \/ result[a].error = None /\ result[a].detail \in Detail
      <3>1. asset[a] \in Holdings /\ asset[a] # None
        BY <2>1, NoneAssumption DEF IInv, Justified
      <3>2. PICK desc \in Descriptions(asset[a]) : result[a] = attest(build_inventory_item(desc))
        BY <2>1 DEF IInv, Justified
      <3>3. CASE result[a].error = None
        <4>1. Signed(a)
          BY <2>1, <3>3 DEF Signed
        <4>2. Encodable(AssetIdentity(asset[a]))
          BY <4>1, SignedAsset, AssetEncodable
        <4>3. QED
          BY <3>1, <3>3, <4>1, <4>2, SignedAsset, EncodedFits
      <3>4. QED
        BY <3>1, <3>2, <3>3, AnswerShape
    <2>2. QED
      BY <2>1 DEF IInv, TypeOK
  <1>2. QED
    BY <1>1, Invariance, PTL

\* What a signed detail decodes to is what the asset is.
LEMMA DecodedAsset ==
  ASSUME IInv, NEW a \in Asset, Signed(a)
  PROVE  LET held == asset[a]
             item == held.item
             d    == Decoded(result[a].detail)
         IN /\ d.defindex = item.defindex
            /\ d.paint = UnwrapOr(item.paintindex, 0)
            /\ d.tint = UnwrapOr(item.tint_id, 0)
            /\ d.slab <=> Slab(item) /\ UseExtended(item.defindex, d.tint)
            /\ Painted(item) => d.seed = held.paintseed /\ d.micros = (held.floatvalue + 5) \div 10
            /\ ~Painted(item) <=> d.paint = 0
  <1> DEFINE id == AssetIdentity(asset[a])
             item == asset[a].item
             d == Decoded(result[a].detail)
  <1>1. /\ Encodable(id)
        /\ id.defindex = item.defindex /\ id.tint_id = UnwrapOr(item.tint_id, 0)
        /\ id.paintindex = UnwrapOr(item.paintindex, 0) /\ id.is_slab = Slab(item)
        /\ Painted(item) => /\ ~UseExtended(id.defindex, id.tint_id)
                           /\ id.paintseed = asset[a].paintseed /\ id.floatvalue = asset[a].floatvalue
        /\ ~Painted(item) <=> id.paintindex = 0
    BY SignedAsset, AssetEncodable
  <1>2. d = Decoded(encode_item_detail(id))
    BY SignedAsset
  <1> HIDE DEF id, d, item
  <1>3. /\ d.defindex = id.defindex /\ d.tint = id.tint_id
        /\ d.slab <=> id.is_slab /\ UseExtended(id.defindex, id.tint_id)
        /\ UseExtended(id.defindex, id.tint_id) => d.paint = 0
        /\ ~UseExtended(id.defindex, id.tint_id) =>
             /\ d.paint = id.paintindex /\ d.seed = id.paintseed
             /\ d.micros = (id.floatvalue + 5) \div 10
    BY <1>1, <1>2, EncodingReadsBack
  <1>4. d.paint = id.paintindex
    BY <1>1, <1>3
  <1>5. Painted(item) => d.seed = asset[a].paintseed /\ d.micros = (asset[a].floatvalue + 5) \div 10
    BY <1>1, <1>3
  <1>6. d.slab <=> Slab(item) /\ UseExtended(item.defindex, d.tint)
    BY <1>1, <1>3
  <1>7. QED
    BY <1>1, <1>3, <1>4, <1>5, <1>6 DEF d, item

\* DetailDescribesAsset holds of every behaviour: the contract that reads a signed
\* detail back gets the defindex, paint, tint, seed, rounded float and slab flag of
\* the asset on Steam, in standard and in extended mode.
THEOREM DetailIsFaithful == Spec => []DetailDescribesAsset
  <1>1. IInv => DetailDescribesAsset
    BY DecodedAsset DEF DetailDescribesAsset
  <1>2. QED
    BY <1>1, Invariance, PTL

\* Two items without paint in standard mode that agree on the defindex have one
\* static key; ensure_representable_item_detail allows it to only one of them.
LEMMA SameStaticKey ==
  ASSUME NEW i \in SteamItems, NEW j \in SteamItems, ~Painted(i), ~Painted(j),
         i.defindex = j.defindex,
         ~UseExtended(i.defindex, UnwrapOr(i.tint_id, 0)),
         ~UseExtended(j.defindex, UnwrapOr(j.tint_id, 0))
  PROVE  static_attestation_key(i) = static_attestation_key(j)
  <1> DEFINE key(item) == [paintindex |-> 0, floatvalue |-> 0, defindex |-> item.defindex,
                           paintseed |-> 0, quality |-> quality_from(item.stat_trak, item.souvenir),
                           tint_id |-> UnwrapOr(item.tint_id, 0), pattern_tier |-> 0,
                           is_slab |-> Slab(item)]
  <1>1. ItemShape(i) /\ ItemShape(j)
    BY CatalogAssumption DEF CatalogAssumption
  <1>2. quality_from(i.stat_trak, i.souvenir) = quality_from(j.stat_trak, j.souvenir)
    BY <1>1 DEF ItemShape
  <1>3. Standard(key(i)) = Standard(key(j))
    BY SMT, <1>2 DEF Standard
  <1>4. encode_item_detail(key(i)) = Standard(key(i)) /\ encode_item_detail(key(j)) = Standard(key(j))
    BY SMT DEF encode_item_detail
  <1>5. QED
    BY SMT, <1>3, <1>4 DEF static_attestation_key

\* DetailIdentifiesItem holds of every behaviour: two assets without paint that are
\* signed with one detail are the same item, because ensure_representable_item_detail
\* refuses standard-mode conflicts and extended mode has none.
THEOREM DetailIsUnique == Spec => []DetailIdentifiesItem
  <1>1. ASSUME IInv, NEW a \in Asset, NEW b \in Asset, Signed(a), Signed(b),
               result[a].detail = result[b].detail, ~Painted(asset[a].item)
        PROVE  asset[a].item = asset[b].item
    <2> DEFINE i == asset[a].item
               j == asset[b].item
               ti == UnwrapOr(i.tint_id, 0)
    <2>1. i \in SteamItems /\ j \in SteamItems
      BY <1>1, SignedAsset DEF Holdings
    <2>2. /\ i.defindex = j.defindex /\ ti = UnwrapOr(j.tint_id, 0)
          /\ ~Painted(i) /\ ~Painted(j)
          /\ (Slab(i) /\ UseExtended(i.defindex, ti)) <=> (Slab(j) /\ UseExtended(i.defindex, ti))
      BY <1>1, DecodedAsset
    <2>3. i.defindex # None /\ Representable(i) /\ j.defindex # None
      BY <1>1, <2>2, SignedAsset
    <2>4. CASE UseExtended(i.defindex, ti)
      <3>1. PairAssumption(i, j)
        BY <2>1, CatalogAssumption DEF CatalogAssumption
      <3>2. QED
        BY <2>2, <2>3, <2>4, <3>1 DEF PairAssumption
    <2>5. CASE ~UseExtended(i.defindex, ti)
      <3>1. PICK k \in DOMAIN catalog : catalog[k] = i
        BY <1>1, SignedAsset
      <3>2. PICK l \in DOMAIN catalog : catalog[l] = j
        BY <1>1, <2>2, SignedAsset
      <3>3. static_attestation_key(j) = static_attestation_key(i)
        BY <2>1, <2>2, <2>5, SameStaticKey
      <3>4. HasStaticKey(i) /\ HasStaticKey(j)
        BY <2>2, <2>3 DEF HasStaticKey
      <3>5. k = l
        BY <2>3, <2>5, <3>1, <3>2, <3>3, <3>4 DEF Representable
      <3>6. QED
        BY <3>1, <3>2, <3>5
    <2>6. QED
      BY <2>4, <2>5
  <1>2. IInv => DetailIdentifiesItem
    BY <1>1 DEF DetailIdentifiesItem
  <1>3. QED
    BY <1>2, Invariance, PTL

-----------------------------------------------------------------------------
(* The signed quality *)

\* What build_inventory_item makes of the words of a name.
VariantOf(words) ==
  quality_from(StartsWith(words, "StatTrak") \/ words = <<"StatTrak">>,
               StartsWith(words, "Souvenir") \/ words = <<"Souvenir">>)

\* The quality that Steam gives an item.
OwnQuality(item) == encode_quality(quality_from(item.stat_trak, item.souvenir))

\* The words give the item's quality, except that a star hides StatTrak.
LEMMA VariantQuality ==
  ASSUME NEW i \in SteamItems, Painted(i)
  PROVE  encode_quality(VariantOf(i.name.words)) = OwnQuality(i)
           <=> i.name.words # <<"Star", "StatTrak">>
  <1> USE DEF VariantOf, OwnQuality, StartsWith, quality_from, encode_quality
  <1>1. CASE i.name.words = <<>> /\ i.stat_trak = FALSE /\ i.souvenir = FALSE
    BY <1>1
  <1>2. CASE i.name.words = <<"Star">> /\ i.stat_trak = FALSE /\ i.souvenir = FALSE
    BY <1>2
  <1>3. CASE i.name.words = <<"StatTrak">> /\ i.stat_trak = TRUE /\ i.souvenir = FALSE
    BY <1>3
  <1>4. CASE i.name.words = <<"Star", "StatTrak">> /\ i.stat_trak = TRUE /\ i.souvenir = FALSE
    BY <1>4
  <1>5. CASE i.name.words = <<"Souvenir">> /\ i.stat_trak = FALSE /\ i.souvenir = TRUE
    BY <1>5
  <1>6. QED
    BY <1>1, <1>2, <1>3, <1>4, <1>5, VariantAssumption

\* The quality signed for a painted asset is Steam's exactly when its name does not
\* begin with a star and StatTrak.
QualityMissesStarStatTrak ==
  \A a \in Asset : Signed(a) /\ Painted(asset[a].item) =>
    (result[a].detail.quality = OwnQuality(asset[a].item)
       <=> asset[a].item.name.words # <<"Star", "StatTrak">>)

\* QualityMissesStarStatTrak holds of every behaviour: build_inventory_item loses
\* StatTrak for the StatTrak knives, all of them, and for nothing else, whatever Steam
\* leaves out of the description.
THEOREM QualityRule == Spec => []QualityMissesStarStatTrak
  <1>1. ASSUME IInv, NEW a \in Asset, Signed(a)
        PROVE  /\ asset[a].item \in SteamItems
               /\ result[a].detail.quality = encode_quality(VariantOf(asset[a].item.name.words))
    <2>1. result[a].detail = encode_item_detail(AssetIdentity(asset[a])) /\ asset[a] \in Holdings
      BY <1>1, SignedAsset
    <2>2. AssetIdentity(asset[a]).quality = VariantOf(asset[a].item.name.words)
      BY DEF AssetIdentity, VariantOf
    <2>3. asset[a].item \in SteamItems
      BY <2>1 DEF Holdings
    <2>4. QED
      BY SMT, <2>1, <2>2, <2>3 DEF encode_item_detail, Extended, Standard
  <1>2. IInv => QualityMissesStarStatTrak
    BY <1>1, VariantQuality DEF QualityMissesStarStatTrak
  <1>3. QED
    BY <1>2, Invariance, PTL

-----------------------------------------------------------------------------
(* The signed tier *)

GunWords == {<<>>, <<"StatTrak">>, <<"Souvenir">>}

\* The variants of a gun's finish have one catalog key.
LEMMA VariantsShareKey ==
  ASSUME NEW m, NEW n, m.words \in GunWords, n.words \in GunWords,
         m.weapon = n.weapon, m.pattern = n.pattern
  PROVE  to_catalog_key(m) = to_catalog_key(n)
  <1>1. ASSUME NEW words \in GunWords PROVE strip_variant_prefixes(words) = <<>>
    <2>1. CASE words = <<>>
      BY <2>1 DEF strip_variant_prefixes, StartsWith
    <2>2. CASE words = <<"StatTrak">>
      <3>1. StartsWith(words, "StatTrak") /\ Tail(words) = <<>>
        BY <2>2 DEF StartsWith
      <3>2. ~StartsWith(<<>>, "Souvenir")
        BY DEF StartsWith
      <3>3. QED
        BY <3>1, <3>2 DEF strip_variant_prefixes
    <2>3. CASE words = <<"Souvenir">>
      <3>1. ~StartsWith(words, "StatTrak") /\ StartsWith(words, "Souvenir") /\ Tail(words) = <<>>
        BY <2>3 DEF StartsWith
      <3>2. QED
        BY <3>1 DEF strip_variant_prefixes
    <2>4. QED
      BY <2>1, <2>2, <2>3 DEF GunWords
  <1>2. strip_variant_prefixes(m.words) = strip_variant_prefixes(n.words)
    BY <1>1
  <1>3. QED
    BY <1>2 DEF to_catalog_key, WithoutWear

\* Two attested guns of one weapon, pattern, paint and seed have one signed tier,
\* whether StatTrak, Souvenir or neither and whatever their wear.
TierIgnoresVariant ==
  \A a, b \in Asset :
    LET i == asset[a].item
        j == asset[b].item
    IN /\ Signed(a) /\ Signed(b) /\ Painted(i) /\ Painted(j)
       /\ i.name.words \in GunWords /\ j.name.words \in GunWords
       /\ i.name.weapon = j.name.weapon /\ i.name.pattern = j.name.pattern
       /\ i.paintindex = j.paintindex /\ asset[a].paintseed = asset[b].paintseed
       => result[a].detail.tier = result[b].detail.tier

\* TierIgnoresVariant holds of every behaviour and taxonomy: to_catalog_key and
\* classify_special_pattern_tier let neither the variant nor the wear of a name decide.
THEOREM TierRule == Spec => []TierIgnoresVariant
  <1>1. ASSUME IInv, NEW a \in Asset, Signed(a), Painted(asset[a].item)
        PROVE  LET i == asset[a].item IN
               /\ i \in SteamItems
               /\ result[a].detail.tier =
                    AtMost(TierOfKey(to_catalog_key(i.name), i.defindex, i.paintindex, asset[a].paintseed), 7)
    <2> DEFINE i == asset[a].item
               id == AssetIdentity(asset[a])
    <2>1. /\ result[a].detail = encode_item_detail(id) /\ asset[a] \in Holdings
          /\ i.defindex # None /\ (i.item_type = "graffiti" => i.tint_id # None)
      BY <1>1, SignedAsset
    <2>2. i \in SteamItems
      BY <2>1 DEF Holdings
    <2>3. i.paintindex # None
      BY <1>1 DEF Painted
    <2>4. id.pattern_tier = TierOfKey(to_catalog_key(i.name), i.defindex, i.paintindex, asset[a].paintseed)
      BY <1>1, <2>3 DEF AssetIdentity, UnwrapOr
    <2>5. ~UseExtended(id.defindex, id.tint_id)
      BY <1>1, <2>1, AssetEncodable
    <2>6. result[a].detail.tier = AtMost(id.pattern_tier, 7)
      BY SMT, <2>1, <2>5 DEF encode_item_detail, Standard
    <2>7. QED
      BY <2>2, <2>4, <2>6
  <1>2. ASSUME NEW i \in SteamItems, NEW j \in SteamItems, Painted(i), Painted(j),
               i.name.weapon = j.name.weapon
        PROVE  i.defindex = j.defindex
    BY <1>2, CatalogAssumption DEF PairAssumption
  <1>3. IInv => TierIgnoresVariant
    BY <1>1, <1>2, VariantsShareKey DEF TierIgnoresVariant
  <1>4. QED
    BY <1>3, Invariance, PTL
=============================================================================
