--------------------------- MODULE MCTableEditing ---------------------------
(* An instance of TableEditing for TLC. *)
EXTENDS TableEditing, TLC

CONSTANTS x, y, bad

\* A text cell and one with options above a read-only and a text cell; beside
\* them, one being loaded above a read-only one.
SixKinds == <<1, 1>> :> "text" @@ <<1, 2>> :> "options" @@ <<1, 3>> :> "loading"
            @@ <<2, 1>> :> "readOnly" @@ <<2, 2>> :> "text" @@ <<2, 3>> :> "readOnly"

\* Single values, a row, a column, and lines of different lengths.
SomeTexts == {<<<<x>>>>, <<<<y>>>>, <<<<bad>>>>, <<<<Empty, x>>>>, <<<<y>>, <<bad>>>>,
              <<<<x, y>>, <<x, y, x>>>>, <<<<bad, x>>, <<y>>>>}
=============================================================================
