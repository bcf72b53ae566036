------------------------------- MODULE Catalog -------------------------------
(***************************************************************************)
(* From what Steam says about an asset to the 64-bit itemDetail that is    *)
(* signed: build_inventory_item of src/src/steam_inventory.rs,             *)
(* CatalogResolver of src/src/inventory_attestation/catalog.rs and the     *)
(* encoder of src/src/item_detail.rs.                                      *)
(*                                                                         *)
(* A market_hash_name is the words in front of it (star, StatTrak,         *)
(* Souvenir), a weapon, a pattern or None, and a suffix in parentheses or  *)
(* None: the parts into which the code takes it.  An itemDetail is the six *)
(* bit fields that the encoder shifts together.  A floatvalue is counted   *)
(* in tenths of a millionth.                                               *)
(***************************************************************************)
EXTENDS Naturals, Sequences

CONSTANTS
  None,         \* Option::None
  Asset,        \* the assets that are attested
  SteamItems,   \* the items there are on Steam
  Catalogs,     \* the catalogs that may be embedded: sequences of such items
  Families,     \* special_classification.families
  Seeds,        \* the paintseeds that occur
  Floats        \* the floatvalues that occur

Errors == {"CatalogMiss", "UnsupportedFinishCatalog", "AmbiguousCatalogIdentity", "MissingDefindex",
           "MissingTintId", "MissingFloatvalue", "MissingPaintseed", "UnrepresentableItemDetail"}

Painted(item) == item.paintindex # None

Slab(item) == item.item_type = "sticker_slab"

UnwrapOr(x, default) == IF x = None THEN default ELSE x

UseExtended(defindex, tint_id) == defindex > 8191 \/ tint_id > 0

WithoutWear(name) ==
  [words |-> name.words, weapon |-> name.weapon, pattern |-> name.pattern, wear |-> None]

\* The values of a field or a number with this largest value.
UpTo(limit) == 0 .. limit

\* What holds of every item of the embedded catalog: the ranges of its numbers,
ItemRanges(item) ==
  /\ item.defindex # None => item.defindex \in UpTo(268435455)
  /\ item.paintindex # None => item.paintindex \in UpTo(65535) \ {0}
  /\ item.tint_id # None => item.tint_id \in UpTo(31)
  /\ Painted(item) => item.defindex \in UpTo(8191)

\* and that painted items have an exterior and no tint, the others no variant.
ItemShape(item) ==
  /\ Painted(item) => item.item_type = "skin" /\ item.exterior # None /\ item.tint_id = None
  /\ ~Painted(item) => item.stat_trak = FALSE /\ item.souvenir = FALSE /\ item.exterior = None
  /\ item.tint_id # None => item.item_type = "graffiti"

\* What holds of any two: a weapon has one defindex, a name and a paint belong to
\* one item, and so does what extended mode encodes.
PairAssumption(i, j) ==
  /\ Painted(i) /\ Painted(j) /\ i.name.weapon = j.name.weapon => i.defindex = j.defindex
  /\ Painted(i) /\ i.name = j.name /\ i.paintindex = j.paintindex => i = j
  /\ Painted(i) => WithoutWear(i.name) # j.name
  /\ ~Painted(i) /\ ~Painted(j) /\ i.defindex # None /\ i.defindex = j.defindex
     /\ UnwrapOr(i.tint_id, 0) = UnwrapOr(j.tint_id, 0)
     /\ UseExtended(i.defindex, UnwrapOr(i.tint_id, 0))
     /\ (Slab(i) <=> Slab(j)) => i = j

\* A catalog lists an item once, and with a name all the items of that name.
ASSUME CatalogAssumption ==
  /\ None \notin Nat /\ None \notin Errors
  /\ \A i \in SteamItems : ItemRanges(i) /\ ItemShape(i) /\ \A j \in SteamItems : PairAssumption(i, j)
  /\ \A cat \in Catalogs :
       /\ DOMAIN cat \subseteq Nat
       /\ \A k \in DOMAIN cat : cat[k] \in SteamItems
       /\ \A k, l \in DOMAIN cat : cat[k] = cat[l] => k = l
       /\ \A k \in DOMAIN cat, i \in SteamItems :
            i.name = cat[k].name => \E l \in DOMAIN cat : cat[l] = i

\* The words of a painted item's name tell its variant; the star comes first.
ASSUME VariantAssumption ==
  \A i \in SteamItems : Painted(i) =>
    \/ i.name.words \in {<<>>, <<"Star">>} /\ i.stat_trak = FALSE /\ i.souvenir = FALSE
    \/ i.name.words \in {<<"StatTrak">>, <<"Star", "StatTrak">>} /\ i.stat_trak = TRUE /\ i.souvenir = FALSE
    \/ i.name.words = <<"Souvenir">> /\ i.stat_trak = FALSE /\ i.souvenir = TRUE

\* The tier of a bucket is a u32.
ASSUME TaxonomyAssumption ==
  /\ DOMAIN Families \subseteq Nat
  /\ \A i \in DOMAIN Families : \A b \in DOMAIN Families[i].buckets : Families[i].buckets[b] \in Nat

ASSUME EvidenceAssumption == Seeds \subseteq UpTo(1000) /\ Floats \subseteq UpTo(10000000)

VARIABLES
  catalog,      \* the embedded catalog
  asset,        \* asset[a]: which item a is, its paintseed and floatvalue, or None
  result        \* result[a]: the last answer about a, or None
vars == <<catalog, asset, result>>

-----------------------------------------------------------------------------
(* What Steam says about an asset (external) *)

Holdings ==
  [item : {i \in SteamItems : Painted(i)}, paintseed : Seeds, floatvalue : Floats]
  \cup [item : {i \in SteamItems : ~Painted(i)}, paintseed : {None}, floatvalue : {None}]

ASSUME NoneAssumption == None \notin Holdings

\* The quality tag has the words of the name.  The name of a painted item may come
\* without its wear, and any property may be missing.
Descriptions(held) ==
  [market_hash_name : IF Painted(held.item) THEN {held.item.name, WithoutWear(held.item.name)}
                      ELSE {held.item.name},
   exterior : {held.item.exterior}, tag : {held.item.name.words},
   floatvalue : {held.floatvalue, None}, paintseed : {held.paintseed, None},
   finish_catalog : {held.item.paintindex, None}]

-----------------------------------------------------------------------------
(* steam_inventory.rs *)

StartsWith(words, word) == words # <<>> /\ Head(words) = word

build_inventory_item(desc) ==
  [market_hash_name |-> desc.market_hash_name, exterior |-> desc.exterior,
   is_stattrak |-> StartsWith(desc.market_hash_name.words, "StatTrak") \/ desc.tag = <<"StatTrak">>,
   is_souvenir |-> StartsWith(desc.market_hash_name.words, "Souvenir") \/ desc.tag = <<"Souvenir">>,
   floatvalue |-> desc.floatvalue, paintseed |-> desc.paintseed,
   finish_catalog |-> desc.finish_catalog]

-----------------------------------------------------------------------------
(* item_detail.rs *)

AtMost(x, limit) == IF x <= limit THEN x ELSE limit

encode_quality(quality) == IF quality = 9 THEN 1 ELSE IF quality = 12 THEN 2 ELSE 0

\* tint << 43 and defindex_upper << 28 share the field of the float; slab is bit 4.
Extended(id) ==
  [paint |-> 0, mid |-> (AtMost(id.tint_id, 31) * 32768) + ((id.defindex \div 8192) % 32768),
   def |-> id.defindex % 8192, seed |-> 1023, tier |-> IF id.is_slab THEN 4 ELSE 0,
   quality |-> encode_quality(id.quality)]

\* The float is rounded to millionths.
Standard(id) ==
  [paint |-> id.paintindex % 65536, mid |-> ((id.floatvalue + 5) \div 10) % 1048576,
   def |-> id.defindex % 8192, seed |-> AtMost(id.paintseed, 1000) % 1024,
   tier |-> AtMost(id.pattern_tier, 7), quality |-> encode_quality(id.quality)]

encode_item_detail(id) ==
  IF UseExtended(id.defindex, id.tint_id) THEN Extended(id) ELSE Standard(id)

-----------------------------------------------------------------------------
(* Names and special pattern tiers *)

\* The entry that a search from the front of a list finds, when hits are the places
\* of the entries that match.
FirstMatch(list, hits) == list[CHOOSE i \in hits : \A j \in hits : i <= j]

\* A leading StatTrak, then a leading Souvenir, is dropped.
strip_variant_prefixes(words) ==
  LET drop(ws, word) == IF StartsWith(ws, word) THEN Tail(ws) ELSE ws
  IN drop(drop(words, "StatTrak"), "Souvenir")

\* Faulty variant: the wear is left in the name.
to_catalog_key_KeepsWear(name) == [name EXCEPT !.words = strip_variant_prefixes(name.words)]

to_catalog_key(name) == [WithoutWear(name) EXCEPT !.words = strip_variant_prefixes(name.words)]

\* An exact matcher has a key, a suffix matcher a pattern.
matches_catalog_matcher(key, matcher) ==
  IF matcher.kind = "exact" THEN key = matcher.value ELSE key.pattern = matcher.value

MatchesAny(key, matchers) == \E x \in matchers : matches_catalog_matcher(key, x)

matches_paint_seed_item_rule(rule, key, defindex, paint_index) ==
  /\ rule.catalog_matchers # {} => MatchesAny(key, rule.catalog_matchers)
  /\ rule.defindexes # {} => defindex \in rule.defindexes
  /\ rule.paint_index # None => rule.paint_index = paint_index

\* The rules of a paint_index_map speak of the paint, those of a paint_seed_map of
\* the seed, once the first entry for the item is found.
TierOfKey(key, defindex, paint_index, paint_seed) ==
  LET families == {i \in DOMAIN Families : MatchesAny(key, Families[i].catalog_matchers)}
      family   == FirstMatch(Families, families)
      byPaint  == family.kind = "paint_index_map"
      items    == {i \in DOMAIN family.items :
                     matches_paint_seed_item_rule(family.items[i], key, defindex, paint_index)}
      rules    == IF byPaint THEN family.rules ELSE FirstMatch(family.items, items).rules
      hits     == {i \in DOMAIN rules : (IF byPaint THEN paint_index ELSE paint_seed) \in rules[i].values}
      bucket   == FirstMatch(rules, hits).bucket_key
  IN IF families # {} /\ (byPaint \/ items # {}) /\ hits # {} /\ bucket \in DOMAIN family.buckets
     THEN family.buckets[bucket] ELSE 0

classify_special_pattern_tier(name, defindex, paint_index, paint_seed) ==
  TierOfKey(to_catalog_key(name), defindex, paint_index, paint_seed)

\* The part before the first bar, without stars, is the weapon.
parse_family_from_market_hash_name(name) ==
  LET words == strip_variant_prefixes(name.words)
      starless == IF StartsWith(words, "Star") THEN Tail(words) ELSE words
  IN <<starless, name.weapon, name.pattern>>

-----------------------------------------------------------------------------
(* CatalogResolver *)

quality_from(stattrak, souvenir) == IF souvenir THEN 12 ELSE IF stattrak THEN 9 ELSE 4

\* Candidates by exact name, and by weapon, pattern, exterior and variant.
ExactCandidates(inv) ==
  {k \in DOMAIN catalog : catalog[k].name = inv.market_hash_name}

FamilyCandidates(inv) ==
  {k \in DOMAIN catalog :
     /\ Painted(catalog[k]) /\ inv.exterior # None /\ inv.market_hash_name.pattern # None
     /\ parse_family_from_market_hash_name(inv.market_hash_name)
          = <<<<>>, catalog[k].name.weapon, catalog[k].name.pattern>>
     /\ catalog[k].exterior = inv.exterior
     /\ catalog[k].stat_trak = inv.is_stattrak /\ catalog[k].souvenir = inv.is_souvenir}

WithFinish(candidates, finish) == {k \in candidates : catalog[k].paintindex = finish}

\* The candidates by name, or by family when no item has the name and the finish is
\* known.
Candidates(inv) ==
  IF inv.finish_catalog = None \/ ExactCandidates(inv) # {}
  THEN ExactCandidates(inv) ELSE FamilyCandidates(inv)

Matching(inv) ==
  IF inv.finish_catalog = None THEN Candidates(inv)
  ELSE WithFinish(Candidates(inv), inv.finish_catalog)

\* Faulty variant: the first of several candidates will do.
Decisive_Always(inv) == TRUE

\* One candidate is left, or the finish picks the first among those with the name.
Decisive(inv) ==
  \/ \E k \in Matching(inv) : Matching(inv) = {k}
  \/ inv.finish_catalog # None /\ ExactCandidates(inv) # {}

\* The error of resolve_catalog_item, or None.
CatalogError(inv) ==
  IF Candidates(inv) = {} THEN "CatalogMiss"
  ELSE IF Matching(inv) = {} THEN "UnsupportedFinishCatalog"
  ELSE IF ~Decisive(inv) THEN "AmbiguousCatalogIdentity"
  ELSE None

resolve_catalog_item(inv) ==
  catalog[CHOOSE k \in Matching(inv) : \A l \in Matching(inv) : k <= l]

\* The detail of an item that has no paint, seed or float.
static_attestation_key(item) ==
  encode_item_detail([paintindex |-> 0, floatvalue |-> 0, defindex |-> item.defindex,
    paintseed |-> 0, quality |-> quality_from(item.stat_trak, item.souvenir),
    tint_id |-> UnwrapOr(item.tint_id, 0), pattern_tier |-> 0, is_slab |-> Slab(item)])

HasStaticKey(item) == item.defindex # None /\ ~Painted(item)

\* Faulty variant: no conflict is looked for.
Representable_Always(item) == TRUE

\* ensure_representable_item_detail: no other entry of the catalog has the same
\* static key; extended mode is not looked at.
Representable(item) ==
  \/ ~HasStaticKey(item)
  \/ UseExtended(item.defindex, UnwrapOr(item.tint_id, 0))
  \/ LET same == {k \in DOMAIN catalog :
                   /\ HasStaticKey(catalog[k])
                   /\ static_attestation_key(catalog[k]) = static_attestation_key(item)}
     IN \A k, l \in same : k = l

\* The error of resolve once the item is found, or None.
ItemError(item, inv) ==
  IF item.defindex = None THEN "MissingDefindex"
  ELSE IF item.item_type = "graffiti" /\ item.tint_id = None THEN "MissingTintId"
  ELSE IF Painted(item) /\ inv.floatvalue = None THEN "MissingFloatvalue"
  ELSE IF Painted(item) /\ inv.paintseed = None THEN "MissingPaintseed"
  ELSE IF ~Representable(item) THEN "UnrepresentableItemDetail"
  ELSE None

identity(item, inv) ==
  LET paintindex == UnwrapOr(item.paintindex, 0)
      paintseed  == IF Painted(item) THEN inv.paintseed ELSE 0
  IN [defindex |-> item.defindex, paintindex |-> paintindex, paintseed |-> paintseed,
      tint_id |-> IF item.item_type = "graffiti" THEN item.tint_id ELSE 0,
      quality |-> quality_from(inv.is_stattrak, inv.is_souvenir),
      floatvalue |-> IF Painted(item) THEN inv.floatvalue ELSE 0,
      pattern_tier |-> classify_special_pattern_tier(inv.market_hash_name, item.defindex,
                                                     paintindex, paintseed),
      is_slab |-> Slab(item)]

\* The answer of the handler: an error, or the detail that it signs.
attest(inv) ==
  LET item  == resolve_catalog_item(inv)
      error == IF CatalogError(inv) # None THEN CatalogError(inv) ELSE ItemError(item, inv)
  IN [error |-> error,
      detail |-> IF error = None THEN encode_item_detail(identity(item, inv)) ELSE None]

-----------------------------------------------------------------------------
Init ==
  /\ catalog \in Catalogs
  /\ asset = [a \in Asset |-> None]
  /\ result = [a \in Asset |-> None]

\* A request, the first or a later one, for an asset, which is what it is, however
\* Steam describes it.
Attest(a, held, desc) ==
  /\ asset[a] \in {None, held}
  /\ asset' = [asset EXCEPT ![a] = held]
  /\ result' = [result EXCEPT ![a] = attest(build_inventory_item(desc))]
  /\ UNCHANGED catalog

Next == \E a \in Asset, held \in Holdings : \E desc \in Descriptions(held) : Attest(a, held, desc)

Spec == Init /\ [][Next]_vars

-----------------------------------------------------------------------------
(* Properties *)

Detail == [paint : UpTo(65535), mid : UpTo(1048575), def : UpTo(8191),
           seed : UpTo(1023), tier : UpTo(7), quality : UpTo(3)]

\* Every answer is an error or a detail whose fields fit their bits, so that the
\* shifted fields do not overlap.
TypeOK ==
  /\ catalog \in Catalogs
  /\ \A a \in Asset : asset[a] # None => asset[a] \in Holdings
  /\ \A a \in Asset : result[a] # None =>
       /\ asset[a] # None
       /\ \/ result[a].error \in Errors /\ result[a].detail = None
          \/ result[a].error = None /\ result[a].detail \in Detail

Signed(a) == result[a] # None /\ result[a].error = None

\* What the layout says a detail is about: paintseed 1023 stands for extended mode.
Decoded(d) ==
  IF d.seed = 1023
  THEN [defindex |-> ((d.mid % 32768) * 8192) + d.def, tint |-> d.mid \div 32768,
        slab |-> d.tier = 4, paint |-> 0, seed |-> 0, micros |-> 0]
  ELSE [defindex |-> d.def, tint |-> 0, slab |-> FALSE, paint |-> d.paint, seed |-> d.seed,
        micros |-> d.mid]

\* A signed detail, read back, is the asset on Steam: its defindex, paint and tint,
\* and its seed and rounded float, or its slab flag in extended mode; whichever way
\* the item was found and whatever Steam left out.
DetailDescribesAsset ==
  \A a \in Asset : Signed(a) =>
    LET held == asset[a]
        item == held.item
        d    == Decoded(result[a].detail)
    IN /\ d.defindex = item.defindex
       /\ d.paint = UnwrapOr(item.paintindex, 0)
       /\ d.tint = UnwrapOr(item.tint_id, 0)
       /\ d.slab <=> Slab(item) /\ UseExtended(item.defindex, d.tint)
       /\ Painted(item) => d.seed = held.paintseed /\ d.micros = (held.floatvalue + 5) \div 10

\* Two assets without paint whose signed details are equal are the same item:
\* a sticker is never signed as the agent with its number.
DetailIdentifiesItem ==
  \A a, b \in Asset :
    /\ Signed(a) /\ Signed(b)
    /\ result[a].detail = result[b].detail
    /\ ~Painted(asset[a].item)
    => asset[a].item = asset[b].item

\* A later attestation of an asset never has another detail: what Steam leaves out
\* and whether the item is found by name or by family makes no difference.
DetailNeverChanges ==
  [][\A a \in Asset : Signed(a) /\ Signed(a)' => result'[a].detail = result[a].detail]_vars

\* The quality that is signed for a painted item is Steam's, as the encoder's
\* comment has it: 9 for StatTrak.
QualityIsSteams ==
  \A a \in Asset : Signed(a) /\ Painted(asset[a].item) =>
    result[a].detail.quality
      = encode_quality(quality_from(asset[a].item.stat_trak, asset[a].item.souvenir))
=============================================================================
