------------------------------- MODULE Template -------------------------------
(***************************************************************************)
(* The request templates of a node (adapter/template.go, adapter/form.go)  *)
(* and their check against the plan before a run                           *)
(* (engine/validate_template_inputs.go).                                   *)
(*                                                                         *)
(* A text of a template is a sequence of tokens: literals, placeholders,   *)
(* and the tags of its blocks.  How a value is escaped where it lands, and *)
(* what joins the copies of an iteration, is left out.                     *)
(***************************************************************************)
EXTENDS Integers, SequencesExt

CONSTANTS
  Compound,   \* the compound names of conditionals: name -> the keys it names
  Lists       \* the values that are lists -> their elements, each of which is
              \* the function from "" to its value or from its fields' names

Blank == -3   \* the empty string

Token(t, k) == [t |-> t, k |-> k, v |-> 0]
Literal(k) == Token("text", k)
Hole(k) == Token("hole", k)          \* {{k}}
If(k) == Token("if", k)              \* {{?k}}
Each(k) == Token("each", k)          \* {{#k}}
Close(k) == Token("close", k)        \* {{/k}}
Dot(field) == Token("dot", field)    \* {{.}} or {{.field}}
Index == Token("index", "")          \* {{@index}}
ValueToken(v) == [t |-> "value", k |-> "", v |-> v]

Text == Seq([t : STRING, k : STRING, v : Int])

KeysOf(name) == IF name \in DOMAIN Compound THEN Compound[name] ELSE {name}

IsList(v) == v \in DOMAIN Lists

condPresent(in, k) == k \in DOMAIN in /\ in[k] # Blank
anyPresent(in, name) == \E k \in KeysOf(name) : condPresent(in, k)
valuePresent(in, k) ==
  k \in DOMAIN in /\ in[k] # Blank /\ (IsList(in[k]) => Lists[in[k]] # <<>>)

-----------------------------------------------------------------------------
(* Rendering.  The result of what may fail is a set, empty when it failed. *)

(* Mutant of findBlockClose: the first tag that closes the key. *)
findBlockCloseFirst(s, key) ==
  SelectInSeq(s, LAMBDA x : x = Close(key))

(* The tag that closes a block for key, which s starts after; 0 for none.  A
   block opened for the key meanwhile takes a tag first. *)
findBlockClose(s, key) ==
  LET count(kinds, n) == Cardinality({i \in 1..n : s[i].t \in kinds /\ s[i].k = key})
      closing == {n \in DOMAIN s : s[n] = Close(key)
                                   /\ count({"if", "each"}, n) = count({"close"}, n - 1)}
  IN  IF closing = {} THEN 0 ELSE Min(closing)

expandElement(body, elem, i) ==
  [n \in DOMAIN body |->
     IF body[n].t = "index" THEN ValueToken(i)
     ELSE IF body[n].t = "dot" /\ body[n].k \in DOMAIN elem THEN ValueToken(elem[body[n].k])
     ELSE body[n]]

expandArray(body, elems) ==
  FlattenSeq([i \in DOMAIN elems |-> expandElement(body, elems[i], i - 1)])

Expansion(kind, key, body, in) ==
  IF kind = "if" THEN {IF anyPresent(in, key) THEN body ELSE <<>>}
  ELSE IF key \in DOMAIN in /\ IsList(in[key]) THEN {expandArray(body, Lists[in[key]])}
  ELSE {}

(* The first block of the kind is expanded until none is left: what is inside a
   block is looked at after it. *)
expandBlocks(text, kind, in) ==
  LET expanded[s \in Text] ==
        LET open == SelectInSeq(s, LAMBDA x : x.t = kind)
            rest == SubSeq(s, open + 1, Len(s))
            close == findBlockClose(rest, s[open].k)
            bodies == IF close = 0 THEN {}
                      ELSE Expansion(kind, s[open].k, SubSeq(rest, 1, close - 1), in)
        IN  IF open = 0 THEN {s}
            ELSE UNION {expanded[SubSeq(s, 1, open - 1) \o body \o SubSeq(rest, close + 1, Len(rest))] :
                          body \in bodies}
  IN  expanded[text]

(* Mutant of expandTemplate: iterations first. *)
expandTemplateEachFirst(s, in) ==
  UNION {expandBlocks(e, "if", in) : e \in expandBlocks(s, "each", in)}

expandTemplate(s, in) ==
  UNION {expandBlocks(e, "each", in) : e \in expandBlocks(s, "if", in)}

Filled(x, in) == x.t \in {"text", "value"} \/ (x.t = "hole" /\ x.k \in DOMAIN in)

substitutePlaceholders(s, in) ==
  {[n \in DOMAIN e |-> IF e[n].t = "hole" THEN ValueToken(in[e[n].k]) ELSE e[n]] :
     e \in {e \in expandTemplate(s, in) : \A n \in DOMAIN e : Filled(e[n], in)}}

(* {}: not one placeholder alone. *)
wholePlaceholder(s) == IF Len(s) = 1 /\ s[1].t = "hole" THEN {s[1].k} ELSE {}

LeftOut(s, in) == \E k \in wholePlaceholder(s) : ~valuePresent(in, k)
HasConditional(s) == \E n \in DOMAIN s : s[n].t = "if"

(* A rendered literal or Blank is no text. *)
IsEmptyText(r) == \A n \in DOMAIN r : r[n] = ValueToken(Blank)

(* The headers that are sent, or {} when one can't be rendered.  A gRPC call's
   metadata is never left out. *)
renderHeaders(tmpl, in) ==
  LET texts == tmpl.headers
      among == {h \in DOMAIN texts : tmpl.grpc \/ ~LeftOut(texts[h], in)}
      rendered == [h \in among |-> substitutePlaceholders(texts[h], in)]
      kept == {h \in among : tmpl.grpc \/ ~HasConditional(texts[h])
                             \/ \A r \in rendered[h] : ~IsEmptyText(r)}
  IN  IF \E h \in among : rendered[h] = {} THEN {}
      ELSE {[h \in kept |-> CHOOSE r \in rendered[h] : TRUE]}

Pair(key, at, field, text) == [key |-> key, at |-> at, field |-> field, text |-> text]

(* The pairs of a field that is one placeholder: one, or one for each element of
   a list and for each field of an element. *)
appendFormValue(key, v) ==
  IF ~IsList(v) THEN <<Pair(key, 0, "", <<ValueToken(v)>>)>>
  ELSE FlattenSeq([i \in DOMAIN Lists[v] |->
         LET elem == Lists[v][i]
         IN  IF "" \in DOMAIN elem THEN <<Pair(key, 0, "", <<ValueToken(elem[""])>>)>>
             ELSE SetToSeq({Pair(key, i, f, <<ValueToken(elem[f])>>) : f \in DOMAIN elem})])

appendFormText(field, in) ==
  IF LeftOut(field.text, in) THEN {<<>>}
  ELSE IF wholePlaceholder(field.text) # {}
  THEN {appendFormValue(field.key, in[k]) : k \in wholePlaceholder(field.text)}
  ELSE {IF IsEmptyText(r) /\ HasConditional(field.text) THEN <<>>
        ELSE <<Pair(field.key, 0, "", r)>> : r \in substitutePlaceholders(field.text, in)}

renderForm(fields, in) ==
  FoldLeft(LAMBDA sent, field : {p \o q : p \in sent, q \in appendFormText(field, in)},
           {<<>>}, fields)

(* BuildRequest: {} when a part can't be rendered, or a form is given another
   type by a header that the template can't replace. *)
BuildRequest(tmpl, in, typed) ==
  IF tmpl.form # <<>> /\ typed THEN {}
  ELSE {[path |-> p, headers |-> h, body |-> b, form |-> f] :
          p \in substitutePlaceholders(tmpl.path, in), h \in renderHeaders(tmpl, in),
          b \in substitutePlaceholders(tmpl.body, in), f \in renderForm(tmpl.form, in)}

-----------------------------------------------------------------------------
(* Classification. *)

(* The blocks of a kind, taken out one after the other, and what is left. *)
scanBlocks(text, kind) ==
  LET scan[s \in Text] ==
        LET open == SelectInSeq(s, LAMBDA x : x.t = kind)
            rest == SubSeq(s, open + 1, Len(s))
            close == IF open = 0 THEN 0 ELSE findBlockClose(rest, s[open].k)
            others == scan[SubSeq(s, 1, open - 1) \o SubSeq(rest, close + 1, Len(rest))]
        IN  IF close = 0 THEN [blocks |-> {}, remaining |-> s]
            ELSE [others EXCEPT !.blocks =
                    @ \cup {[key |-> s[open].k, body |-> SubSeq(rest, 1, close - 1)]}]
  IN  scan[text]

Holes(s) == {s[n].k : n \in {n \in DOMAIN s : s[n].t = "hole"}}
BlockKeys(scan) == UNION {KeysOf(b.key) : b \in scan.blocks}

classifySource(s) ==
  LET each == scanBlocks(s, "each")
      cond == scanBlocks(s, "if")
      inner == {scanBlocks(b.body, "each") : b \in cond.blocks}
  IN  [iter |-> BlockKeys(each) \cup UNION {BlockKeys(i) : i \in inner},
       cond |-> BlockKeys(cond),
       condInner |-> UNION {BlockKeys(i) \cup Holes(i.remaining) : i \in inner},
       plain |-> Holes(cond.remaining)]

(* The texts that are always rendered. *)
Sources(tmpl) ==
  {tmpl.path, tmpl.body}
  \cup {s \in Range(tmpl.headers) : tmpl.grpc \/ wholePlaceholder(s) = {}}
  \cup {f.text : f \in {f \in Range(tmpl.form) : wholePlaceholder(f.text) = {}}}

(* The keys required; the conditional and the iterable ones are only shown. *)
ClassifyInputs(tmpl) ==
  LET all == {classifySource(s) : s \in Sources(tmpl)}
  IN  UNION {c.plain : c \in all} \ UNION {c.iter \cup c.cond \cup c.condInner : c \in all}

WholeValueInputs(tmpl) ==
  UNION {wholePlaceholder(s) : s \in {f.text : f \in Range(tmpl.form)}
                                     \cup (IF tmpl.grpc THEN {} ELSE Range(tmpl.headers))}

(* validateTemplateInputsForNodes of a node with these inputs: what is refused.
   supplied are those that have a default, or a value in some step of the node. *)
validateTemplateInputs(tmpl, names, optional, supplied) ==
  (WholeValueInputs(tmpl) \ names) \cup ((ClassifyInputs(tmpl) \cap optional) \ supplied)

-----------------------------------------------------------------------------
(* What a template says, read as it is written.  The tag that closes a block is
   the one that leaves as many open as there were. *)
Open(s, n) ==
  Cardinality({i \in 1..n : s[i].t \in {"if", "each"}})
  - Cardinality({i \in 1..n : s[i].t = "close"})
ClosedBy(s, i) == Min({n \in DOMAIN s : n > i /\ Open(s, n) = Open(s, i - 1)})
Blocks(s) == {i \in DOMAIN s : s[i].t \in {"if", "each"}}

WellNested(s) ==
  /\ \A n \in DOMAIN s : Open(s, n) >= 0
  /\ Open(s, Len(s)) = 0
  /\ \A i \in Blocks(s) : s[ClosedBy(s, i)] = Close(s[i].k)

Unconditional(s) ==
  {s[n].k : n \in {n \in DOMAIN s : s[n].t = "hole" /\ Open(s, n) = 0}}

(* A block inside an iteration.  The document has none ("Blocks don't nest: a
   block inside another is not repeated for each element of the outer one"), while
   expandBlocks repeats it with the body it stands in. *)
BlockInEach(s) ==
  \E i, j \in Blocks(s) : s[i].t = "each" /\ i < j /\ j < ClosedBy(s, i)

(* What a text says whose iterations hold no blocks: elem is the list and the
   position in it that an iteration is at. *)
Elements == {<<>>} \cup ((DOMAIN Lists) \X Nat)

Reading(text, in) ==
  LET reading[s \in Text, elem \in Elements] ==
        LET x == s[1]
            end == IF x.t \in {"if", "each"} THEN ClosedBy(s, 1) ELSE 1
            body == SubSeq(s, 2, end - 1)
            fields == Lists[elem[1]][elem[2]]
            copies == [i \in DOMAIN Lists[in[x.k]] |-> reading[body, <<in[x.k], i>>]]
            read ==
              CASE x.t = "text" -> {<<x>>}
                [] x.t = "hole" -> IF x.k \in DOMAIN in THEN {<<ValueToken(in[x.k])>>} ELSE {}
                [] x.t = "index" -> IF elem # <<>> THEN {<<ValueToken(elem[2] - 1)>>} ELSE {}
                [] x.t = "dot" -> IF elem # <<>> /\ x.k \in DOMAIN fields
                                  THEN {<<ValueToken(fields[x.k])>>} ELSE {}
                [] x.t = "if" -> IF anyPresent(in, x.k) THEN reading[body, elem] ELSE {<<>>}
                [] x.t = "each" ->
                     IF x.k \in DOMAIN in /\ IsList(in[x.k])
                     THEN FoldLeft(LAMBDA texts, copy : {a \o b : a \in texts, b \in copy},
                                   {<<>>}, copies)
                     ELSE {}
        IN  IF s = <<>> THEN {<<>>}
            ELSE {a \o b : a \in read, b \in reading[SubSeq(s, end + 1, Len(s)), elem]}
  IN  reading[text, <<>>]
=============================================================================
