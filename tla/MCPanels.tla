------------------------------ MODULE MCPanels ------------------------------
(* Two panels and a page: panel p has a form of two fields, panel q one field,
   the page one.  *)
EXTENDS Panels

CONSTANTS p, q, a, i1, i2, j

MCHome == a :> Page @@ i1 :> p @@ i2 :> p @@ j :> q
MCDefaultFocusP == p :> i1 @@ q :> NoView
MCFormOrder == p :> <<i1, i2>> @@ q :> <<>> @@ Page :> <<>>
=============================================================================
