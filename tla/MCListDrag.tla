----------------------------- MODULE MCListDrag -----------------------------
(* An instance of ListDrag for TLC. *)
EXTENDS ListDrag, TLC

\* A folder with an item, an empty folder, and an item.
Tree == "root" :> <<"f", "g", "x">> @@ "f" :> <<"y">> @@ "g" :> <<>>

\* Either every drop is valid, or folders cannot be put into folders and the
\* content may change.
OneLevel == {"f", "g"} \X {"f", "g"}
MCSetups ==
    {[badDrops |-> {}, changesIn |-> {}],
     [badDrops |-> OneLevel, changesIn |-> {"idle"}],
     [badDrops |-> OneLevel, changesIn |-> {"pressed"}]}
=============================================================================
