--------------------------- MODULE MCNotarization ---------------------------
(* Instances of Notarization for TLC. *)
EXTENDS Notarization, TLC

Item(app, asset) == [appid |-> app, assetid |-> asset]

\* The asset after an item of another game, after another CS2 item, after one
\* whose asset id does not parse; no list at all.
AllGiveLists ==
  {<<Item(440, Asset), Item(CS2, Asset)>>, <<Item(CS2, Asset + 1), Item(CS2, Asset)>>,
   <<Item(CS2, None), Item(CS2, Asset)>>, None}

PlainGiveLists == {<<Item(CS2, Asset)>>}

AllReceiveLists == {None, <<Item(CS2, Asset + 2)>>}

NoReceiveLists == {None}

=============================================================================
