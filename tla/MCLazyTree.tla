----------------------------- MODULE MCLazyTree -----------------------------
(* Instances of LazyTree for TLC. *)
EXTENDS LazyTree

CONSTANTS a, b, c, d, e

\* The items that the second function lists, nothing below the others.
Tree(first, below) ==
    [i \in Items \cup {Root} |->
        IF i = Root THEN first ELSE IF i \in DOMAIN below THEN below[i] ELSE <<>>]

View(content, visible, buffer, reordering, selecting, may) ==
    [content |-> content, visible |-> visible, bufferSize |-> buffer,
     allowReordering |-> reordering, allowSelection |-> selecting, may |-> may]

\* A flat list, to which d can be added.
FlatTree == Tree(<<a, b, c>>, d :> <<e>>)

\* a with b, and c beside it.
TinyTree == Tree(<<a, c>>, a :> <<b>>)

\* Five items: a with b and d, b with c; and e beside it.
DeepTree == Tree(<<a, e>>, a :> <<b, d>> @@ b :> <<c>>)

\* Only c, with the rest below it out of sight.
ClosedTree == Tree(<<c>>, c :> <<a, b, d, e>>)

\* Only a with b.
PairTree == Tree(<<a>>, a :> <<b>>)

MCSetups == {
    View(DeepTree, 2, 0, FALSE, TRUE, {"pressScroll", "input"}),
    View(TinyTree, 1, 0, TRUE, TRUE, {"dragOut", "dragScroll"}),
    View(TinyTree, 4, 0, TRUE, FALSE, {}),
    View(FlatTree, 1, 2, FALSE, FALSE, {"content"}),
    View(TinyTree, 1, 0, FALSE, TRUE, {"api", "hidden"}),
    View(TinyTree, 1, 0, FALSE, FALSE, {"oneRow"}),
    View(PairTree, 2, 0, TRUE, TRUE, {"input"}),
    View(ClosedTree, 1, 0, TRUE, FALSE, {"input", "content"})}
=============================================================================
