-------------------------- MODULE MCFallbackRouter --------------------------
(***************************************************************************)
(* FallbackRouter on small instances.  The requests differ in one thing at *)
(* a time: branch, persona (none, empty, one that is called "a"), task and *)
(* preference; two run into each other in the cache key, whose separator   *)
(* is in a prompt and in a persona.                                        *)
(***************************************************************************)
EXTENDS FallbackRouter

Pieces == {"a", "b", ":"}
a == <<"a">>
b == <<"b">>
aa == <<"a", ":", "a">>
Branches == {a, b}

Asks(task, prompt, branch, persona, prefer) ==
    [task |-> task, prompt |-> prompt, branch |-> branch, persona |-> persona,
     prefer |-> prefer]

RunTogether == {Asks("T5", a, a, <<"b", ":", "a">>, None), Asks("T5", aa, b, a, None)}

Requests ==
    RunTogether
        \union {Asks("T5", aa, a, w, None) : w \in {None, <<>>, a}}
        \union {Asks("T5", a, a, None, "kimi")}
        \union {Asks("T9", a, a, None, p) : p \in {None, "gpt"}}
        \union {Asks(t, a, a, None, None) : t \in {"T0", "T3b"}}

Names == [kimi |-> {"kimi"}, deepseek |-> {"v4"}, deepseek_pro |-> {"v4"},
          glm |-> {"glm"}]
=============================================================================
