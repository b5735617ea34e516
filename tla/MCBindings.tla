----------------------------- MODULE MCBindings -----------------------------
(* Protocols for TLC: one with every type of argument, and those in which  *)
(* three objects return each other in every way, or something unknown.     *)
EXTENDS Bindings, TLC

LongText == [i \in 1..130 |-> 120]

\* What calls pass, given their arrays of uints.
ValuesWith(uints) ==
  (<<"varchar">> :> {<<>>, LongText}) @@ (<<"fd">> :> {7})
  @@ (<<"uint">> :> {4129}) @@ (<<"int">> :> {-2}) @@ (<<"f32">> :> {<<0, 0, 128, 63>>})
  @@ (<<"array", "varchar">> :> {<<>>, <<<<0, 33>>, LongText>>})
  @@ (<<"array", "fd">> :> {<<>>, <<8, 9>>})
  @@ (<<"array", "uint">> :> uints)
  @@ (<<"array", "int">> :> {<<-1>>}) @@ (<<"array", "f32">> :> {<<<<0, 1, 2, 3>>>>})

MCValues == ValuesWith({<<0, 33>>, <<1, 2, 3, 4>>})
AtTheLimit == ValuesWith({<<1, 2, 3>>})

Arg1(name, type) == [name |-> name, type |-> type, enum |-> ""]
EnumArg(name, enum) == [name |-> name, type |-> <<"enum">>, enum |-> enum]
Call(side, name, args, returns, destructor) ==
  [side |-> side, name |-> name, args |-> args, returns |-> returns,
   destructor |-> destructor]

Everything ==
  [name |-> <<112, 64>>, version |-> 2,
   objects |->
     <<[name |-> "root", methods |->
         <<Call("c2s", "numbers", <<Arg1("u", <<"uint">>), Arg1("i", <<"int">>),
                                    Arg1("f", <<"f32">>)>>, "", FALSE),
           Call("s2c", "pick", <<EnumArg("e", "mode"), Arg1("t", <<"varchar">>)>>,
                "", FALSE),
           Call("c2s", "bye", <<>>, "", TRUE),
           Call("c2s", "open", <<Arg1("t", <<"varchar">>), EnumArg("e", "mode")>>,
                "leaf", FALSE),
           Call("c2s", "files", <<Arg1("more", <<"array", "fd">>), Arg1("one", <<"fd">>)>>,
                "", FALSE),
           Call("s2c", "files", <<Arg1("one", <<"fd">>), Arg1("u", <<"uint">>)>>,
                "", FALSE),
           Call("s2c", "refused", <<>>, "leaf", FALSE),
           Call("c2s", "lists", <<Arg1("us", <<"array", "uint">>),
                                  Arg1("ts", <<"array", "varchar">>)>>, "", FALSE)>>],
       [name |-> "leaf", methods |->
         <<Call("s2c", "lists", <<Arg1("is", <<"array", "int">>),
                                  Arg1("fs", <<"array", "f32">>)>>, "", FALSE),
           Call("s2c", "over", <<>>, "", TRUE),
           Call("c2s", "next", <<>>, "leaf", FALSE),
           Call("c2s", "end", <<Arg1("u", <<"uint">>)>>, "", TRUE),
           Call("c2s", "unused", <<>>, "", TRUE)>>]>>,
   enums |-> <<[name |-> "mode", values |-> <<1, 5>>], [name |-> "empty", values |-> <<>>]>>]

Names == {"a", "b", "c"}

Returning(name, returned) ==
  [name |-> name, methods |-> <<Call("c2s", "go", <<>>, returned, FALSE)>>]

Graphs3 ==
  {[name |-> <<112>>, version |-> 1, enums |-> <<>>,
    objects |-> <<Returning("a", r["a"]), Returning("b", r["b"]), Returning("c", r["c"])>>] :
     r \in [Names -> Names \cup {"other"}]}

\* One call, with an array of uints.
Listing ==
  [name |-> <<112>>, version |-> 1, enums |-> <<>>,
   objects |-> <<[name |-> "root", methods |->
                   <<Call("c2s", "lists", <<Arg1("us", <<"array", "uint">>)>>, "", FALSE)>>]>>]

\* Two methods, one of which holds nothing.
Farewell ==
  [name |-> <<112>>, version |-> 1, enums |-> <<>>,
   objects |-> <<[name |-> "root", methods |->
                   <<Call("c2s", "bye", <<>>, "", TRUE),
                     Call("c2s", "number", <<Arg1("u", <<"uint">>)>>, "", FALSE)>>]>>]

MCListing == {Listing}
MCFarewell == {Farewell}
MCProtocols == {Everything} \cup Graphs3
MCSpoiled == {Everything}
MCLayouts == {[open |-> FALSE, noise |-> TRUE], [open |-> TRUE, noise |-> FALSE]}
MCBeside == <<[name |-> <<113>>, version |-> 3]>>
MCErrorText == <<111, 104>>
=============================================================================
