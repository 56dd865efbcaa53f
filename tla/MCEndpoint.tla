----------------------------- MODULE MCEndpoint -----------------------------
EXTENDS Endpoint

Pairs == {<<i, j>> : i, j \in Annotated \cup Injected}
Singles == {<<i>> : i \in Annotated \cup Injected}
Kinds(s) == {s[i] : i \in DOMAIN s}

E(sigs, roles, responses, clashes) ==
  [sig : sigs, procedure : BOOLEAN, async : BOOLEAN, coroutine : BOOLEAN,
   restricted : roles, response : responses, clash : clashes]

\* Every signature of up to two parameters; roles, response models and keywords that
\* are called `model' with short ones; two contexts behind a plain dependency.
MCEndpoints ==
  {e \in E(Pairs, {FALSE}, {<<>>}, {{}})
         \cup E(Singles \cup {<<>>}, BOOLEAN, {<<>>, <<1>>, <<2>>}, {{}})
         \cup E(Singles \cup {<<"model", "call_details">>}, {FALSE}, {<<>>},
                {{Unknown}, {1}, {2}, {ModelRequired}, {ModelOptional}})
         \cup E({<<"function", "generator", "generator">>,
                 <<"coroutine", "async_generator", "async_generator">>},
                {TRUE}, {<<1>>}, {{}}) :
     e.procedure \/ (~e.restricted /\ e.response = <<>>)}

MCMessages ==
  [args : 0..2,
   kwargs : {{}, {Unknown}, {1}, {2}, {1, 2}, {ModelOptional}, {ModelRequired}},
   values : {"exact", "convertible", "unfit"},
   details : {"absent", "roleless", "allowed", "other"}]

MCResults ==
  [kind : {"none"}, count : {0}, fits : {TRUE}, sendable : {TRUE}]
  \cup [kind : {"list"}, count : {0}, fits : {TRUE}, sendable : BOOLEAN]
  \cup [kind : {"primitive"}, count : {0}, fits : BOOLEAN, sendable : {TRUE}]
  \cup [kind : {"result", "tuple"}, count : {1, 2}, fits : {TRUE}, sendable : {TRUE}]
  \cup [kind : {"tuple"}, count : {2}, fits : {FALSE}, sendable : {TRUE}]
=============================================================================
