------------------------------ MODULE Scanner ------------------------------
(***************************************************************************)
(* parse_protocol: from the events of an XML reader to a Protocol.  The    *)
(* reader checks that elements nest; everything else is up to four loops,  *)
(* for the protocol, an object, a method and an enum, each of which takes  *)
(* the next closing tag for its own.                                       *)
(*                                                                         *)
(* A document is made from a protocol that it is to say: every event of it *)
(* is a record with the element's tag and attributes.  Descriptions and    *)
(* summaries, which only end up in comments, are elements to be passed.    *)
(***************************************************************************)
EXTENDS Naturals, Sequences, SequencesExt

CONSTANTS
  Protocols,   \* what documents say
  Spoiled,     \* those whose documents may also be damaged
  Layouts,     \* how they say it
  Forms        \* and how elements that hold nothing are written

VARIABLES
  said,      \* the protocol the document is made from
  form,      \* how its elements that hold nothing are written
  damage,    \* what is wrong with the document
  doc,       \* the document's events
  pos,       \* the next event
  where,     \* the loop: "protocol", "object", "method", "enum"
  passing,   \* the element that read_to_end or read_text_to_end passes, if any
  out,       \* name, objects and enums so far
  obj, meth, enm,   \* what is being read
  parse      \* "reading", "parsed", "failed"

scanVars == <<said, form, damage, doc, pos, where, passing, out, obj, meth, enm, parse>>

-----------------------------------------------------------------------------
(* What a document says. *)

(* A sequence, of whatever it holds. *)
IsSeq(s) == s \in Seq(ToSet(s))

\* A type is its words.
ArgTypes ==
  {<<t>> : t \in {"varchar", "fd", "uint", "int", "f32", "enum"}}
    \cup {<<"array", t>> : t \in {"varchar", "fd", "uint", "int", "f32"}}

\* Only an argument of type enum names one.
ArgWritten(a) ==
  /\ a = [name |-> a.name, type |-> a.type, enum |-> a.enum]
  /\ a.type \in ArgTypes /\ (a.type # <<"enum">> => a.enum = "")

MethodWritten(m) ==
  /\ m.side \in {"c2s", "s2c"} /\ m.destructor \in BOOLEAN
  /\ IsSeq(m.args) /\ \A k \in DOMAIN m.args : ArgWritten(m.args[k])

ObjectWritten(o) ==
  IsSeq(o.methods) /\ \A k \in DOMAIN o.methods : MethodWritten(o.methods[k])

EnumWritten(e) == e = [name |-> e.name, values |-> e.values] /\ IsSeq(e.values)

ProtocolWritten(p) ==
  /\ IsSeq(p.objects) /\ \A k \in DOMAIN p.objects : ObjectWritten(p.objects[k])
  /\ IsSeq(p.enums) /\ \A k \in DOMAIN p.enums : EnumWritten(p.enums[k])

(* Protocols are what a document can say. *)
ASSUME ProtocolsAssumption == \A p \in Protocols : ProtocolWritten(p)

-----------------------------------------------------------------------------
(* Documents. *)

Ev(ev, tag, attrs) == [ev |-> ev, tag |-> tag, attrs |-> attrs]
Opening(tag, attrs) == Ev("start", tag, attrs)
Closing(tag) == Ev("end", tag, <<>>)
NoAttrs == [none |-> "none"]

\* Elements that say nothing, and hold elements of their own.
Remark(tag) == <<Opening(tag, NoAttrs), Ev("text", tag, NoAttrs), Closing(tag)>>
Aside == <<Opening("aside", NoAttrs)>> \o Remark("aside") \o Remark("p")
           \o <<Closing("aside")>>

\* A method that is no destructor may say so, or say nothing.
MethodAttrs(m, layout) ==
  IF m.destructor THEN [name |-> m.name, destructor |-> "true"]
  ELSE IF layout.open THEN [name |-> m.name, destructor |-> "false"]
  ELSE [name |-> m.name]

\* An argument may be written with a closing tag, and hold a remark.
ArgDoc(a, layout) ==
  LET attrs == IF a.type = <<"enum">>
               THEN [name |-> a.name, type |-> a.type, interface |-> a.enum]
               ELSE [name |-> a.name, type |-> a.type]
  IN IF layout.open
     THEN <<Opening("arg", attrs)>> \o Remark("summary") \o <<Closing("arg")>>
     ELSE <<Ev("empty", "arg", attrs)>>

MethodDoc(m, layout) ==
  <<Opening(m.side, MethodAttrs(m, layout))>>
    \o (IF layout.noise THEN Remark("description") \o Aside ELSE <<>>)
    \o FlattenSeq([i \in DOMAIN m.args |-> ArgDoc(m.args[i], layout)])
    \o (IF m.returns = "" THEN <<>>
        ELSE <<Ev("empty", "returns", [iface |-> m.returns])>>)
    \o <<Closing(m.side)>>

ObjectDoc(o, layout) ==
  <<Opening("object", [name |-> o.name, version |-> 1])>>
    \o (IF layout.noise THEN Aside \o Remark("description") ELSE <<>>)
    \o FlattenSeq([i \in DOMAIN o.methods |-> MethodDoc(o.methods[i], layout)])
    \o <<Closing("object")>>

EnumDoc(e) ==
  <<Opening("enum", [name |-> e.name])>>
    \o [i \in DOMAIN e.values |->
          Ev("empty", "value", [idx |-> e.values[i], name |-> "value"])]
    \o <<Closing("enum")>>

Doc(p, layout) ==
  <<Opening("protocol", [name |-> p.name, version |-> p.version])>>
    \o (IF layout.noise THEN Remark("copyright") ELSE <<>>)
    \o FlattenSeq([i \in DOMAIN p.objects |-> ObjectDoc(p.objects[i], layout)])
    \o FlattenSeq([i \in DOMAIN p.enums |-> EnumDoc(p.enums[i])])
    \o <<Closing("protocol")>>

(* In XML an element that holds nothing may be one empty element or two    *)
(* tags.  "plain" documents, those above, have empty elements for          *)
(* arguments, values and what a method returns, and tags for methods,      *)
(* objects and enums; "folded" ones have empty elements throughout,        *)
(* "unfolded" ones tags throughout.                                        *)
HoldsNothing(d, i) ==
  /\ i \in DOMAIN d /\ i + 1 \in DOMAIN d
  /\ d[i].ev = "start" /\ d[i + 1].ev = "end"

Folded(d) ==
  FlattenSeq([i \in DOMAIN d |->
    IF HoldsNothing(d, i) THEN <<[d[i] EXCEPT !.ev = "empty"]>>
    ELSE IF HoldsNothing(d, i - 1) THEN <<>> ELSE <<d[i]>>])

Unfolded(d) ==
  FlattenSeq([i \in DOMAIN d |->
    IF d[i].ev = "empty" THEN <<[d[i] EXCEPT !.ev = "start"], Closing(d[i].tag)>>
    ELSE <<d[i]>>])

Written(d, how) ==
  CASE how = "plain" -> d [] how = "folded" -> Folded(d) [] how = "unfolded" -> Unfolded(d)

Method(m) ==
  [name |-> m.name, args |-> m.args, returns |-> m.returns,
   destructor |-> m.destructor]

\* Of an object's first n methods, those of a side.
Sides(o, side) ==
  LET some[n \in 0..Len(o.methods)] ==
        IF n = 0 THEN <<>>
        ELSE IF o.methods[n].side = side THEN Append(some[n - 1], Method(o.methods[n]))
        ELSE some[n - 1]
  IN some

Side(o, side) == Sides(o, side)[Len(o.methods)]

\* What is to be read of a protocol.
Said(p) ==
  [name |-> p.name, version |-> p.version,
   objects |-> [i \in DOMAIN p.objects |->
                  LET o == p.objects[i]
                  IN [name |-> o.name, c2s |-> Side(o, "c2s"), s2c |-> Side(o, "s2c")]],
   enums |-> p.enums]

-----------------------------------------------------------------------------
(* The reader. *)

Next1 == doc[pos]
AtEof == pos > Len(doc)
Has(attr) == attr \in DOMAIN Next1.attrs
Advance == pos' = pos + 1

Reads(loop, ev) ==
  /\ parse = "reading" /\ passing = <<>> /\ where = loop
  /\ ~AtEof /\ Next1.ev = ev

Kept == <<said, form, damage, doc>>

Fails ==
  /\ parse' = "failed"
  /\ UNCHANGED <<Kept, pos, where, passing, out, obj, meth, enm>>

(* read_to_end passes an element with those of its name inside; so does    *)
(* read_text_to_end, except that it takes the first closing tag of the     *)
(* name for the element's.                                                 *)
Pass(how) == passing' = <<[how |-> how, tag |-> Next1.tag, depth |-> 0]>>

PassOn ==
  /\ parse = "reading" /\ passing # <<>> /\ ~AtEof
  /\ LET e == passing[1]
         same == Next1.tag = e.tag
     IN passing' =
          CASE Next1.ev = "end" /\ same /\ (e.depth = 0 \/ e.how = "text") -> <<>>
            [] Next1.ev = "end" /\ same /\ e.depth > 0 /\ e.how = "skip" ->
                 <<[e EXCEPT !.depth = @ - 1]>>
            [] Next1.ev = "start" /\ same -> <<[e EXCEPT !.depth = @ + 1]>>
            [] OTHER -> passing
  /\ Advance
  /\ UNCHANGED <<Kept, where, out, obj, meth, enm, parse>>

\* Every loop but the protocol's refuses the end of the document.
EofRefused ==
  /\ parse = "reading" /\ AtEof
  /\ passing # <<>> \/ where # "protocol"
  /\ Fails

-----------------------------------------------------------------------------
(* The loop of parse_protocol. *)

ReadProtocol ==
  /\ Reads("protocol", "start") /\ Next1.tag = "protocol"
  /\ IF Has("name") /\ Has("version")
     THEN /\ out' = [out EXCEPT !.name = Next1.attrs.name,
                                !.version = Next1.attrs.version]
          /\ Advance
          /\ UNCHANGED <<Kept, where, passing, obj, meth, enm, parse>>
     ELSE Fails

ReadCopyright ==
  /\ Reads("protocol", "start") /\ Next1.tag = "copyright"
  /\ Pass("text") /\ Advance
  /\ UNCHANGED <<Kept, where, out, obj, meth, enm, parse>>

BeginObject ==
  /\ Reads("protocol", "start") /\ Next1.tag = "object"
  /\ IF Has("name") /\ Has("version")
     THEN /\ obj' = [name |-> Next1.attrs.name, c2s |-> <<>>, s2c |-> <<>>]
          /\ where' = "object" /\ Advance
          /\ UNCHANGED <<Kept, passing, out, meth, enm, parse>>
     ELSE Fails

BeginEnum ==
  /\ Reads("protocol", "start") /\ Next1.tag = "enum"
  /\ IF Has("name")
     THEN /\ enm' = [name |-> Next1.attrs.name, values |-> <<>>]
          /\ where' = "enum" /\ Advance
          /\ UNCHANGED <<Kept, passing, out, obj, meth, parse>>
     ELSE Fails

(* What a loop takes no notice of.  An object or a method written as an    *)
(* empty element is among it, and so is an enum.                           *)
Ignored ==
  LET ev == Next1.ev
      tag == Next1.tag
  IN CASE where = "protocol" ->
            ev = "start" => tag \notin {"protocol", "copyright", "object", "enum"}
       [] where = "object" -> ev \in {"empty", "text"}
       [] where = "method" -> ev = "text" \/ (ev = "empty" /\ tag \notin {"arg", "returns"})
       [] where = "enum" -> ev = "text" \/ (ev \in {"empty", "start"} /\ tag # "value")

GoesOn ==
  /\ parse = "reading" /\ passing = <<>> /\ ~AtEof /\ Ignored
  /\ Advance
  /\ UNCHANGED <<Kept, where, passing, out, obj, meth, enm, parse>>

\* The end of the document is the end of the protocol, wherever it comes.
ProtocolEnds ==
  /\ parse = "reading" /\ passing = <<>> /\ where = "protocol" /\ AtEof
  /\ parse' = "parsed"
  /\ UNCHANGED <<Kept, pos, where, passing, out, obj, meth, enm>>

-----------------------------------------------------------------------------
(* The loop of an object. *)

\* A description, or an element that is not known.
ObjectPasses ==
  /\ Reads("object", "start") /\ Next1.tag \notin {"c2s", "s2c"}
  /\ Pass(IF Next1.tag = "description" THEN "text" ELSE "skip") /\ Advance
  /\ UNCHANGED <<Kept, where, out, obj, meth, enm, parse>>

BeginMethod ==
  /\ Reads("object", "start") /\ Next1.tag \in {"c2s", "s2c"}
  /\ IF Has("name")
     THEN /\ meth' = [side |-> Next1.tag, name |-> Next1.attrs.name, args |-> <<>>,
                      returns |-> "",
                      destructor |-> Has("destructor") /\ Next1.attrs.destructor = "true"]
          /\ where' = "method" /\ Advance
          /\ UNCHANGED <<Kept, passing, out, obj, enm, parse>>
     ELSE Fails

ObjectEnds ==
  /\ Reads("object", "end")
  /\ out' = [out EXCEPT !.objects = Append(@, obj)]
  /\ where' = "protocol" /\ Advance
  /\ UNCHANGED <<Kept, passing, obj, meth, enm, parse>>

-----------------------------------------------------------------------------
(* parse_method, for a method of either side. *)

(* An argument has a name and a type that is known; one of an enum has the *)
(* enum's name as well.                                                    *)
ArgOK ==
  /\ Has("name") /\ Has("type") /\ Next1.attrs.type \in ArgTypes
  /\ Next1.attrs.type = <<"enum">> => Has("interface")

Arg ==
  [name |-> Next1.attrs.name, type |-> Next1.attrs.type,
   enum |-> IF Has("interface") THEN Next1.attrs.interface ELSE ""]

ReadArg ==
  /\ Reads("method", "empty") \/ Reads("method", "start")
  /\ Next1.tag = "arg"
  /\ IF ArgOK
     THEN /\ meth' = [meth EXCEPT !.args = Append(@, Arg)]
          /\ IF Next1.ev = "start" THEN Pass("skip") ELSE UNCHANGED passing
          /\ Advance
          /\ UNCHANGED <<Kept, where, out, obj, enm, parse>>
     ELSE Fails

ReadReturns ==
  /\ Reads("method", "empty") /\ Next1.tag = "returns"
  /\ IF Has("iface")
     THEN /\ meth' = [meth EXCEPT !.returns = Next1.attrs.iface]
          /\ Advance
          /\ UNCHANGED <<Kept, where, passing, out, obj, enm, parse>>
     ELSE Fails

MethodPasses ==
  /\ Reads("method", "start") /\ Next1.tag # "arg"
  /\ Pass(IF Next1.tag = "description" THEN "text" ELSE "skip") /\ Advance
  /\ UNCHANGED <<Kept, where, out, obj, meth, enm, parse>>

\* [Mutated form] Both sides' methods are pushed to the same list.
MethodEndsOneList ==
  /\ Reads("method", "end")
  /\ obj' = [obj EXCEPT !.c2s = Append(@, Method(meth))]
  /\ where' = "object" /\ Advance
  /\ UNCHANGED <<Kept, passing, out, meth, enm, parse>>

MethodEnds ==
  /\ Reads("method", "end")
  /\ obj' = IF meth.side = "c2s"
            THEN [obj EXCEPT !.c2s = Append(@, Method(meth))]
            ELSE [obj EXCEPT !.s2c = Append(@, Method(meth))]
  /\ where' = "object" /\ Advance
  /\ UNCHANGED <<Kept, passing, out, meth, enm, parse>>

-----------------------------------------------------------------------------
(* The loop of an enum. *)

(* A value's own closing tag, if it has one, is the next event: the loop   *)
(* takes it for the enum's.                                                *)
ReadValue ==
  /\ Reads("enum", "empty") \/ Reads("enum", "start")
  /\ Next1.tag = "value"
  /\ IF Has("idx") /\ Has("name")
     THEN /\ enm' = [enm EXCEPT !.values = Append(@, Next1.attrs.idx)]
          /\ Advance
          /\ UNCHANGED <<Kept, where, passing, out, obj, meth, parse>>
     ELSE Fails

EnumEnds ==
  /\ Reads("enum", "end")
  /\ out' = [out EXCEPT !.enums = Append(@, enm)]
  /\ where' = "protocol" /\ Advance
  /\ UNCHANGED <<Kept, passing, obj, meth, enm, parse>>

-----------------------------------------------------------------------------
(* What can be wrong with a document: it is cut, or an attribute of an     *)
(* element is missing.                                                     *)

Optional == {"destructor", "none"}

Without(e, attr) ==
  [e EXCEPT !.attrs = [a \in (DOMAIN @ \cup {"none"}) \ {attr} |->
                         IF a = "none" THEN "none" ELSE @[a]]]

Damaged(d) ==
  {[kind |-> "cut", doc |-> SubSeq(d, 1, n)] : n \in 0..(Len(d) - 1)}
    \cup UNION {{[kind |-> "attr", doc |-> [d EXCEPT ![i] = Without(@, attr)]] :
                   attr \in DOMAIN d[i].attrs \ Optional} : i \in DOMAIN d}

ScanInit ==
  /\ said \in Protocols
  /\ LET whole == {Doc(said, layout) : layout \in Layouts}
     IN \/ damage = "none" /\ form \in Forms /\ doc \in {Written(w, form) : w \in whole}
        \/ form = "plain" /\ said \in Spoiled /\ \E w \in whole : \E hurt \in Damaged(w) :
             damage = hurt.kind /\ doc = hurt.doc
  /\ pos = 1 /\ where = "protocol" /\ passing = <<>>
  /\ out = [name |-> <<>>, version |-> 0, objects |-> <<>>, enums |-> <<>>]
  /\ obj = [name |-> "", c2s |-> <<>>, s2c |-> <<>>]
  /\ meth = [side |-> "c2s", name |-> "", args |-> <<>>, returns |-> "",
             destructor |-> FALSE]
  /\ enm = [name |-> "", values |-> <<>>]
  /\ parse = "reading"

ScanNext ==
  \/ PassOn \/ EofRefused
  \/ ReadProtocol \/ ReadCopyright \/ BeginObject \/ BeginEnum
  \/ GoesOn \/ ProtocolEnds
  \/ ObjectPasses \/ BeginMethod \/ ObjectEnds
  \/ ReadArg \/ ReadReturns \/ MethodPasses \/ MethodEnds
  \/ ReadValue \/ EnumEnds

-----------------------------------------------------------------------------
(* Properties. *)

(* Of a plain document parse_protocol reads what it says, however its      *)
(* arguments and remarks are laid out; of one that ends too early it reads *)
(* the objects and enums that are complete, or fails; and it fails when an *)
(* attribute is missing.  Of the other forms this is not so                *)
(* (ReadInEveryForm).                                                      *)
ParsedAsWritten ==
  form = "plain" /\ parse # "reading" =>
    CASE damage = "none" -> parse = "parsed" /\ out = Said(said)
      [] damage = "attr" -> parse = "failed"
      [] damage = "cut" ->
           parse = "parsed" => /\ IsPrefix(out.objects, Said(said).objects)
                               /\ IsPrefix(out.enums, Said(said).enums)

(* An element that holds nothing says the same as an empty one, so what    *)
(* parse_protocol reads does not depend on which of the two is written.    *)
(* The code does not keep this: the loop of an object, and that of the     *)
(* protocol, pass over empty elements, and a value's or a return's own     *)
(* closing tag ends what is around it, or the return is passed.            *)
ReadInEveryForm ==
  damage = "none" /\ parse # "reading" => parse = "parsed" /\ out = Said(said)
=============================================================================
