----------------------------- MODULE MCStorage -----------------------------
(* Instances of Storage: two string keys whose columns clash, a key with   *)
(* an apostrophe and one with two, and a key that is no string.            *)
EXTENDS Storage

MCStringKeys == {"key", "KEY", "it's", "it''s"}
MCUnquoted == [k \in MCStringKeys |-> IF k = "it''s" THEN "it's" ELSE k]
MCColumn == [k \in MCStringKeys |-> IF k \in {"it's", "it''s"} THEN "it's" ELSE "key"]

(* Conversions and refusals, one table at a time.                          *)
PublicInputs ==
    {<<"public", "key", v>> : v \in {"fine", "doubled", "infinite", "huge", "boolean"}}
        \cup {<<"public", "KEY", "text">>, <<"public", "1", "text">>,
              <<"public", "it''s", "spliced">>, <<"public", "it's", "table">>}
PrivateInputs == {<<"private", "key", "number">>}
BothInputs == PublicInputs \cup PrivateInputs
BothRemovals == {<<"public", "key">>, <<"public", "KEY">>, <<"public", "it's">>}
=============================================================================
