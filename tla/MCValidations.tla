--------------------------- MODULE MCValidations ---------------------------
(* An instance of Validations for TLC: a password, its repetition, which    *)
(* has to equal it, an optional nickname, and an associated object, without *)
(* which the password is not valid.                                         *)
EXTENDS Validations, TLC

MCProps == {"check", "password", "nick", "friend"}
MCValues == {0, 1}
MCOutside == {"friend"}
CheckFirst == "check" :> 1 @@ "password" :> 2 @@ "nick" :> 3 @@ "friend" :> 4
MCDeps == "check" :> {"password"} @@ "password" :> {"friend"} @@ "nick" :> {} @@ "friend" :> {}
MCCoupled == "check" :> <<>> @@ "password" :> <<"check">> @@ "nick" :> <<>> @@ "friend" :> <<>>

\* Rule "b" accepts every nickname and every repetition.
Good(p, r, v) ==
    CASE p = "check"    -> r = "b" \/ v["check"] = v["password"]
      [] p = "password" -> v["password"] = 1 /\ v["friend"] = 1
      [] p = "nick"     -> r = "b" \/ v["nick"] = 1
      [] OTHER          -> TRUE

MCAccepts ==
    [pr \in MCProps \X {"a", "b"} |->
        {v \in [MCProps -> MCValues] : Good(pr[1], pr[2], v)}]
=============================================================================
