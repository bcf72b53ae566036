------------------------------ MODULE MCCatalog ------------------------------
EXTENDS Catalog, TLC
CONSTANTS a1, a2

Named(words, weapon, pattern, wear) ==
  [words |-> words, weapon |-> weapon, pattern |-> pattern, wear |-> wear]

Skin(words, weapon, def, pattern, wear, paint) ==
  [name |-> Named(words, weapon, pattern, wear), defindex |-> def, paintindex |-> paint,
   tint_id |-> None, item_type |-> "skin", exterior |-> wear,
   stat_trak |-> "StatTrak" \in {words[i] : i \in DOMAIN words},
   souvenir |-> "Souvenir" \in {words[i] : i \in DOMAIN words}]

Plain(words, type, pattern, suffix, def, tint) ==
  [name |-> Named(words, type, pattern, suffix), defindex |-> def, paintindex |-> None,
   tint_id |-> tint, item_type |-> type, exterior |-> None, stat_trak |-> FALSE, souvenir |-> FALSE]

\* Phases under one name; variants of a finish with tiers by seed; entries that share
\* a defindex in standard and in extended mode; tints; a name of two stickers; a
\* music kit with its StatTrak form; an entry without a defindex.
MCItems ==
  <<Skin(<<"Star">>, "Karambit", 507, "Doppler", "FN", 415),
    Skin(<<"Star">>, "Karambit", 507, "Doppler", "FN", 416),
    Skin(<<"Star">>, "Karambit", 507, "Case Hardened", "FT", 44),
    Skin(<<"Star", "StatTrak">>, "Karambit", 507, "Case Hardened", "FT", 44),
    Skin(<<>>, "AK-47", 7, "Case Hardened", "FT", 44),
    Skin(<<>>, "AK-47", 7, "Case Hardened", "MW", 44),
    Skin(<<"StatTrak">>, "AK-47", 7, "Case Hardened", "FT", 44),
    Skin(<<"Souvenir">>, "AK-47", 7, "Case Hardened", "FT", 44),
    Plain(<<>>, "sticker", "Ork Waaagh!", None, 4619, None),
    Plain(<<>>, "sticker_slab", "Ork Waaagh!", None, 4619, None),
    Plain(<<>>, "agent", "NSWC SEAL", None, 4619, None),
    Plain(<<>>, "sticker", "1eeR", None, 9139, None),
    Plain(<<>>, "sticker_slab", "1eeR", None, 9139, None),
    Plain(<<>>, "sticker", "Mirage", "Gold", 1692, None),
    Plain(<<>>, "sticker", "Mirage", "Gold", 7889, None),
    Plain(<<>>, "graffiti", "Toasted", "Amber", 1727, 5),
    Plain(<<>>, "graffiti", "Toasted", "Violet", 1727, 6),
    Plain(<<>>, "graffiti", "3DMAX", None, 8696, None),
    Plain(<<>>, "music_kit", "Red Room", None, 87, None),
    Plain(<<"StatTrak">>, "music_kit", "Red Room", None, 87, None),
    Plain(<<>>, "case", None, None, None, None)>>

MCSteamItems == {MCItems[k] : k \in DOMAIN MCItems}

Without(ks) == SelectSeq(MCItems, LAMBDA item : item.name \notin {MCItems[k].name : k \in ks})

\* All of it; without the names that conflict with one another, all or all but one
\* of them; without a name whose family stays, and with no Doppler at all.
MCCatalogs == {Without(ks) : ks \in {{}, {9, 10}, {9, 11}, {10, 11}, {19}, {20}, {1}, {5, 6}}}

Exactly(key) == [kind |-> "exact", value |-> key]

MCFamilies ==
  <<[kind |-> "paint_seed_map",
     catalog_matchers |-> {Exactly(Named(<<>>, "AK-47", "Case Hardened", None)),
                           Exactly(Named(<<"Star">>, "Karambit", "Case Hardened", None))},
     items |-> <<[catalog_matchers |-> {}, defindexes |-> {7}, paint_index |-> 44,
                  rules |-> <<[bucket_key |-> "tier_0", values |-> {661}]>>],
                 [catalog_matchers |-> {}, defindexes |-> {507}, paint_index |-> 44,
                  rules |-> <<[bucket_key |-> "tier_1", values |-> {387, 1000}]>>]>>,
     buckets |-> [b \in {"tier_0", "tier_1"} |-> IF b = "tier_0" THEN 1 ELSE 2]],
    [kind |-> "paint_index_map", catalog_matchers |-> {[kind |-> "suffix", value |-> "Doppler"]},
     rules |-> <<[bucket_key |-> "ruby", values |-> {415}], [bucket_key |-> "sapphire", values |-> {416}]>>,
     buckets |-> [b \in {"ruby"} |-> 7]]>>

MCSeeds == {661, 1000}
MCFloats == {9999995}
Sym == Permutations(Asset)
=============================================================================
