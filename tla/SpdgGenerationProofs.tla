------------------------ MODULE SpdgGenerationProofs ------------------------
(***************************************************************************)
(* What holds of the construction of dependence graphs and of the SPDGs    *)
(* made of them, for every program and every order of targets.             *)
(*                                                                         *)
(* The argument: the functions under construction are on the stack, each   *)
(* once, and each leads to the ones above it.  A handling that was         *)
(* determined rests on a graph that is in the cache, which no step takes   *)
(* away again, or on a function further down the stack, which stays there  *)
(* until the frame is gone.  In the second case the function leads back to *)
(* itself; in the first its graph is inlined.                              *)
(*                                                                         *)
(* Every location of a graph is of a call string that starts at the root   *)
(* of the graph and goes from each call to what the judge made of it, so   *)
(* it can be resolved again in the SPDG.  Every place of a node is         *)
(* declared in the function at the leaf, so it has a type that is asked    *)
(* for; what the cache of types then answers is final (TInv).  What a pass *)
(* cannot analyze it reports when it is at the call (Reports), and each    *)
(* marker of a node was looked up for a function that is recorded (DInv).  *)
(*                                                                         *)
(* What the edges tell of a node (NodeTold) is what the program says of it *)
(* and stays so when the graph is inlined or added to (MInv), so its       *)
(* markers are the right ones and policies find them.                      *)
(*                                                                         *)
(* Premises: NamesCallee (a stub is looked up under the function the call  *)
(* names and under the one it resolves to), PlacesDeclared (a body         *)
(* mentions declared places only, and a call passes what the callee        *)
(* takes), Discovered (the queue of targets is what the user selected),    *)
(* CallsApart (what a call is given is written before and not borrowed)    *)
(* and CallsMarked (what an inlined call writes is no marked argument of   *)
(* two calls) speak of the program, which no step changes.                 *)
(***************************************************************************)
EXTENDS PolicyContext, SequenceTheorems, FiniteSetTheorems, TLAPS

Memo == INSTANCE RecursiveCacheProofs WITH
    Key <- Ty, Elem <- Ty, Inputs <- {T!type_graph(ts) : ts \in TypeSystems},
    graph <- type_graph, entry <- type_entry, value <- type_value, stack <- type_stack,
    todo <- type_todo, asked <- type_asked

-----------------------------------------------------------------------------
(***************************************************************************)
(* The parts of the inductive invariant: the stack and the cache.          *)
(***************************************************************************)
FrameOK(fr) ==
    /\ DOMAIN fr = {"fn", "pass", "at", "state", "graph", "handled"}
    /\ fr.fn \in Fn
    /\ fr.pass \in {"iterate", "visit"}
    /\ fr.at \in 1 .. Len(code(fr.fn)) + 1
    /\ DOMAIN fr.graph = {"nodes", "edges"}

Frames ==
    /\ program \in Programs
    /\ stack \in Seq({stack[i] : i \in DOMAIN stack})
    /\ \A i \in DOMAIN stack : FrameOK(stack[i])

Entries ==
    /\ entry \in [Fn -> {"absent", "None", "Some"}]
    /\ DOMAIN pdg = Fn
    /\ \A f \in Fn : entry[f] = "None" <=> \E i \in DOMAIN stack : stack[i].fn = f

OnceOnStack == \A i, j \in DOMAIN stack : stack[i].fn = stack[j].fn => i = j

\* A function under construction leads to the functions above it.
Chain ==
    \A i, j \in DOMAIN stack : i <= j => Reaches(Fn, call_graph, stack[i].fn, stack[j].fn)

\* What frame i has determined of the instruction at l, it would determine again.
Determined(i, l) ==
    LET fr == stack[i]
        c == code(fr.fn)[l]
        w == wanted(fr.fn, c)
    IN  l \in calls(fr.fn) =>
            /\ fr.handled[l] = determine_call_handling(fr.fn, c)
            /\ w # None => entry[w] = "Some" \/ \E j \in 1 .. i : stack[j].fn = w

Handled ==
    \A i \in DOMAIN stack :
        /\ DOMAIN stack[i].handled =
             IF stack[i].pass = "iterate" THEN 1 .. stack[i].at - 1 ELSE DOMAIN code(stack[i].fn)
        /\ stack[i].handled \in Seq({stack[i].handled[l] : l \in DOMAIN stack[i].handled})
        /\ \A l \in DOMAIN stack[i].handled : Determined(i, l)

\* The call at l of function f is in the graph g, unless it is recursive.
Inlined(f, l, g) ==
    LET w == wanted(f, code(f)[l])
        child == push_call_string_root(pdg[w], GlobalLocation(f, l))
    IN  w # None /\ ~Reaches(Fn, call_graph, w, f) =>
            entry[w] = "Some" /\ child.nodes \subseteq g.nodes /\ child.edges \subseteq g.edges

CallsInlined ==
    /\ \A f \in built : \A l \in calls(f) : Inlined(f, l, pdg[f])
    /\ \A i \in DOMAIN stack : stack[i].pass = "visit" =>
        \A l \in calls(stack[i].fn) : l < stack[i].at => Inlined(stack[i].fn, l, stack[i].graph)

IInv == Frames /\ Entries /\ OnceOnStack /\ Chain /\ Handled /\ CallsInlined

-----------------------------------------------------------------------------
(***************************************************************************)
(* What the program says, which no step changes.                           *)
(***************************************************************************)
\* A body is a sequence; what is called is a function or unknown.
LEMMA CodeFacts ==
    ASSUME program \in Programs, NEW f \in Fn
    PROVE  /\ Len(code(f)) \in Nat /\ DOMAIN code(f) = 1 .. Len(code(f))
           /\ \A l \in calls(f) : /\ l \in 1 .. Len(code(f)) /\ code(f)[l].op = "call"
                                  /\ code(f)[l].callee \in Fn \cup {None}
           /\ program.stub \in [Fn -> Fn \cup {None}]
  BY ProgramsAssumption DEF code, calls

\* A stub replaces the function that is called.
LEMMA ReplaceFacts ==
    ASSUME NEW f, NEW c, on_inline(f, c) = "Replace"
    PROVE  program.stub[c.callee] # None
<1> DEFINE kind == classify_call_kind(f, c)
           t == marker_target(kind, c)
<1>1. program.stub[t] # None /\ kind.kind # "AsyncPoll"
  <2> HIDE DEF kind, t
  <2>1. on_inline(f, c) =
           CASE program.stub[t] # None /\ kind.kind # "AsyncPoll" /\ applies(c) -> "Replace"
             [] program.stub[t] # None /\ ~(kind.kind # "AsyncPoll" /\ applies(c)) -> "Skip"
             [] program.stub[t] = None /\ t \in program.skip -> "Skip"
             [] OTHER -> "NoSkip"
    BY DEF on_inline, kind, t
  <2> QED BY <2>1
<1>2. t = c.callee
  BY <1>1 DEF marker_target
<1> QED BY <1>1, <1>2

\* What is asked for is a function.
LEMMA WantedFacts ==
    ASSUME program \in Programs, NEW f \in Fn, NEW l \in calls(f),
           wanted(f, code(f)[l]) # None
    PROVE  wanted(f, code(f)[l]) \in Fn
<1> DEFINE c == code(f)[l]
<1>1. c.callee \in Fn \cup {None} /\ program.stub \in [Fn -> Fn \cup {None}]
  BY CodeFacts
<1>2. c.callee \in Fn
  BY <1>1 DEF wanted
<1>3. on_inline(f, c) = "Replace" => program.stub[c.callee] \in Fn
  BY <1>1, <1>2, ReplaceFacts
<1> HIDE DEF c
<1>4. \/ wanted(f, c) = None \/ wanted(f, c) = c.callee
      \/ on_inline(f, c) = "Replace" /\ wanted(f, c) = program.stub[c.callee]
  BY DEF wanted
<1>5. wanted(f, c) # None
  BY DEF c
<1>6. wanted(f, c) \in Fn
  BY <1>2, <1>3, <1>4, <1>5
<1> QED BY <1>6 DEF c

\* A path may be followed by an edge.
LEMMA LongerPath ==
    ASSUME NEW V, NEW R, NEW a, NEW b \in V, NEW c \in V,
           Reaches(V, R, a, b), <<b, c>> \in R
    PROVE  Reaches(V, R, a, c)
  BY DEF Reaches, ClosedUnder

\* The type cache is the one that RecursiveCacheProofs is about.
LEMMA TypeGraphs ==
    ASSUME NEW ts \in TypeSystems
    PROVE  T!type_graph(ts) \in Memo!Graph
<1>1. ts.parts \in SUBSET (Ty \X Ty) /\ ts.marked \subseteq Ty
  BY TypeSystemsAssumption DEF T!TypeSystem
<1>2. [t \in Ty |-> T!own(ts, t)] \in [Ty -> SUBSET Ty]
  BY DEF T!own
<1>3. {e \in ts.parts : T!looked_into(ts, e[1])} \in SUBSET (Ty \X Ty)
  BY <1>1
<1> QED BY <1>2, <1>3 DEF T!type_graph, Memo!Graph

LEMMA InputsAreGraphs == {T!type_graph(ts) : ts \in TypeSystems} \subseteq Memo!Graph
  BY TypeGraphs

LEMMA ProgramKept ==
    ASSUME program' = program
    PROVE  /\ \A f : code(f)' = code(f) /\ calls(f)' = calls(f)
           /\ \A f, c : wanted(f, c)' = wanted(f, c)
           /\ call_graph' = call_graph
           /\ \A fr : at_end(fr)' = at_end(fr) /\ instruction(fr)' = instruction(fr)
<1>1. \A f : code(f)' = code(f)
  BY DEF code
<1>2. \A f : calls(f)' = calls(f)
  BY <1>1 DEF calls
<1>3. \A f, c : classify_call_kind(f, c)' = classify_call_kind(f, c)
  BY <1>1 DEF classify_call_kind
<1>4. \A f, c : on_inline(f, c)' = on_inline(f, c)
  BY <1>3 DEF on_inline, applies
<1>5. \A f, c : wanted(f, c)' = wanted(f, c)
  BY <1>4 DEF wanted, approximated, is_async
<1>6. call_graph' = call_graph
  BY <1>1, <1>2, <1>5 DEF call_graph
<1>7. \A fr : (at_end(fr)' <=> at_end(fr)) /\ instruction(fr)' = instruction(fr)
  BY <1>1 DEF at_end, instruction
<1> QED BY <1>1, <1>2, <1>5, <1>6, <1>7

\* The handling of a call depends on the program and on whether the wanted graph is there.
LEMMA HandlingKept ==
    ASSUME program' = program, NEW f, NEW c,
           wanted(f, c) # None =>
                (entry'[wanted(f, c)] = "Some" <=> entry[wanted(f, c)] = "Some")
    PROVE  determine_call_handling(f, c)' = determine_call_handling(f, c)
<1>1. classify_call_kind(f, c)' = classify_call_kind(f, c)
  BY DEF classify_call_kind, code
<1>2. on_inline(f, c)' = on_inline(f, c)
  BY <1>1 DEF on_inline, applies
<1>3. wanted(f, c)' = wanted(f, c)
  BY ProgramKept
<1> QED BY <1>2, <1>3 DEF determine_call_handling, approximated, is_async

\* The innermost frame.
LEMMA TopFacts ==
    ASSUME Frames, stack # <<>>
    PROVE  /\ Len(stack) \in Nat /\ Len(stack) \in DOMAIN stack /\ DOMAIN stack = 1 .. Len(stack)
           /\ top = stack[Len(stack)] /\ FrameOK(top)
<1>1. Len(stack) \in Nat /\ DOMAIN stack = 1 .. Len(stack) /\ Len(stack) # 0
  BY DEF Frames
<1> QED BY <1>1 DEF Frames, top

\* A sequence is one of its own elements.
LEMMA OwnElements ==
    ASSUME NEW S, NEW s \in Seq(S)
    PROVE  s \in Seq({s[i] : i \in DOMAIN s})
<1>1. s = [i \in 1 .. Len(s) |-> s[i]] /\ Len(s) \in Nat
  OBVIOUS
<1> QED BY <1>1

\* A call that is inlined stays inlined: graphs in the cache do not change.
LEMMA InlinedKept ==
    ASSUME program' = program, NEW f, NEW l, NEW g, Inlined(f, l, g),
           wanted(f, code(f)[l]) # None /\ entry[wanted(f, code(f)[l])] = "Some" =>
                /\ entry'[wanted(f, code(f)[l])] = "Some"
                /\ pdg'[wanted(f, code(f)[l])] = pdg[wanted(f, code(f)[l])]
    PROVE  Inlined(f, l, g)'
<1> DEFINE w == wanted(f, code(f)[l])
<1>1. code(f)' = code(f)
  BY ProgramKept
<1>2. w' = w
  <2>1. \A c : wanted(f, c)' = wanted(f, c)
    BY ProgramKept
  <2> QED BY <1>1, <2>1
<1>3. call_graph' = call_graph
  BY ProgramKept
<1>4. Inlined(f, l, g) <=>
        (w # None /\ ~Reaches(Fn, call_graph, w, f) =>
            /\ entry[w] = "Some"
            /\ push_call_string_root(pdg[w], GlobalLocation(f, l)).nodes \subseteq g.nodes
            /\ push_call_string_root(pdg[w], GlobalLocation(f, l)).edges \subseteq g.edges)
  BY DEF Inlined
<1>5. Inlined(f, l, g)' <=>
        (w' # None /\ ~Reaches(Fn, call_graph', w', f) =>
            /\ entry'[w'] = "Some"
            /\ push_call_string_root(pdg'[w'], GlobalLocation(f, l)).nodes \subseteq g.nodes
            /\ push_call_string_root(pdg'[w'], GlobalLocation(f, l)).edges \subseteq g.edges)
  BY DEF Inlined
<1>6. w # None /\ entry[w] = "Some" => entry'[w] = "Some" /\ pdg'[w] = pdg[w]
  OBVIOUS
<1> HIDE DEF w
<1> QED BY <1>2, <1>3, <1>4, <1>5, <1>6

\* A larger graph has what a smaller one has.
LEMMA InlinedIn ==
    ASSUME NEW f, NEW l, NEW g, NEW h, Inlined(f, l, g),
           g.nodes \subseteq h.nodes, g.edges \subseteq h.edges
    PROVE  Inlined(f, l, h)
<1> DEFINE w == wanted(f, code(f)[l])
           child == push_call_string_root(pdg[w], GlobalLocation(f, l))
<1>1. Inlined(f, l, g) <=>
        (w # None /\ ~Reaches(Fn, call_graph, w, f) =>
            entry[w] = "Some" /\ child.nodes \subseteq g.nodes /\ child.edges \subseteq g.edges)
  BY DEF Inlined
<1>2. Inlined(f, l, h) <=>
        (w # None /\ ~Reaches(Fn, call_graph, w, f) =>
            entry[w] = "Some" /\ child.nodes \subseteq h.nodes /\ child.edges \subseteq h.edges)
  BY DEF Inlined
<1> HIDE DEF w, child
<1> QED BY <1>1, <1>2

-----------------------------------------------------------------------------
(***************************************************************************)
(* The parts of the invariant in the next state, program unchanged.        *)
(***************************************************************************)
LEMMA FramesNext ==
    ASSUME program' = program, program \in Programs, NEW S, stack' \in Seq(S),
           \A i \in DOMAIN stack' : FrameOK(stack'[i])
    PROVE  Frames'
<1>1. stack' \in Seq({stack'[i] : i \in DOMAIN stack'})
  BY OwnElements
<1> QED BY <1>1, ProgramKept DEF Frames, FrameOK

LEMMA ChainNext ==
    ASSUME program' = program,
           \A i, j \in DOMAIN stack' : i <= j =>
             Reaches(Fn, call_graph, stack'[i].fn, stack'[j].fn)
    PROVE  Chain'
  BY ProgramKept DEF Chain

LEMMA CallsInlinedNext ==
    ASSUME program' = program,
           \A f, l, g : f \in Fn /\ entry'[f] = "Some" /\ l \in calls(f) /\ g = pdg'[f]
                => Inlined(f, l, g)',
           \A i, f, l, g :
                /\ i \in DOMAIN stack' /\ stack'[i].pass = "visit"
                /\ f = stack'[i].fn /\ g = stack'[i].graph
                /\ l \in calls(f) /\ l < stack'[i].at
                => Inlined(f, l, g)'
    PROVE  CallsInlined'
<1>1. \A f : calls(f)' = calls(f)
  BY ProgramKept
<1>2. \A f \in built' : f \in Fn /\ entry'[f] = "Some"
  BY DEF built
<1> QED BY <1>1, <1>2 DEF CallsInlined

LEMMA HandledNext ==
    ASSUME program' = program,
           \A i \in DOMAIN stack' :
                /\ stack'[i].pass = "iterate" =>
                        DOMAIN stack'[i].handled = 1 .. stack'[i].at - 1
                /\ stack'[i].pass # "iterate" =>
                        DOMAIN stack'[i].handled = DOMAIN code(stack'[i].fn)
                /\ \E S : stack'[i].handled \in Seq(S)
                /\ \A l \in DOMAIN stack'[i].handled : Determined(i, l)'
    PROVE  Handled'
<1>1. \A i \in DOMAIN stack' :
            stack'[i].handled \in Seq({stack'[i].handled[l] : l \in DOMAIN stack'[i].handled})
  BY OwnElements
<1>2. \A i \in DOMAIN stack' :
            DOMAIN stack'[i].handled = IF stack'[i].pass = "iterate" THEN 1 .. stack'[i].at - 1
                                       ELSE DOMAIN code(stack'[i].fn)
  OBVIOUS
<1> QED BY <1>1, <1>2, ProgramKept DEF Handled

\* What was determined for a frame stays as it was, if the graphs that were there are
\* the graphs that are there, among those that its calls want.
LEMMA DeterminedNext ==
    ASSUME program' = program, NEW i, NEW f, NEW l, stack'[i].fn = f,
           l \in calls(f) =>
             LET c == code(f)[l]
                 w == wanted(f, c)
             IN  /\ stack'[i].handled[l] = determine_call_handling(f, c)
                 /\ w # None => /\ entry'[w] = "Some" <=> entry[w] = "Some"
                                /\ entry[w] = "Some" \/ \E j \in 1 .. i : stack'[j].fn = w
    PROVE  Determined(i, l)'
<1>1. calls(f)' = calls(f) /\ code(f)' = code(f)
  BY ProgramKept
<1> SUFFICES ASSUME l \in calls(f) PROVE Determined(i, l)'
  BY <1>1, ProgramKept DEF Determined
<1> DEFINE c == code(f)[l]
           w == wanted(f, c)
<1>2. c' = c
  BY <1>1
<1>3. w' = w
  <2>1. \A d : wanted(f, d)' = wanted(f, d)
    BY ProgramKept
  <2> QED BY <1>2, <2>1
<1>4. determine_call_handling(f, c)' = determine_call_handling(f, c)
  <2>1. w # None => (entry'[w] = "Some" <=> entry[w] = "Some")
    OBVIOUS
  <2>2. ASSUME NEW d, d = c PROVE determine_call_handling(f, d)' = determine_call_handling(f, d)
    BY <2>1, <2>2, HandlingKept
  <2> QED BY <1>2, <2>2
<1> QED BY <1>1, <1>2, <1>3, <1>4 DEF Determined

\* What the instruction that the innermost frame has come to asks for, its function calls.
LEMMA Edge ==
    ASSUME Frames, stack # <<>>, ~at_end(top), instruction(top).op = "call",
           NEW f \in Fn, wanted(top.fn, instruction(top)) = f
    PROVE  <<top.fn, f>> \in call_graph
<1> DEFINE g == top.fn
           l == top.at
           e == <<g, f>>
<1>1. program \in Programs /\ g \in Fn /\ l \in 1 .. Len(code(g)) + 1
  BY TopFacts DEF Frames, FrameOK
<1>2. Len(code(g)) \in Nat /\ DOMAIN code(g) = 1 .. Len(code(g))
  BY <1>1, CodeFacts
<1>3. instruction(top) = code(g)[l] /\ ~(l > Len(code(g)))
  BY DEF instruction, at_end
<1>4. e \in Fn \X Fn /\ e[1] = g /\ e[2] = f
  BY <1>1
<1>5. wanted(g, code(g)[l]) = f /\ code(g)[l].op = "call"
  BY <1>3
<1> HIDE DEF g, l, e
<1>6. l \in calls(g)
  BY <1>1, <1>2, <1>3, <1>5 DEF calls
<1>7. e \in call_graph
  BY <1>4, <1>5, <1>6 DEF call_graph
<1> QED BY <1>7 DEF e, g

-----------------------------------------------------------------------------
(***************************************************************************)
(* A construction begins: from outside, or for the call that the innermost *)
(* frame has come to.                                                      *)
(***************************************************************************)
LEMMA ConstructIInv ==
    ASSUME IInv, NEW f \in Fn, entry[f] = "absent", Construct(f),
           stack # <<>> => /\ ~at_end(top) /\ instruction(top).op = "call"
                           /\ wanted(top.fn, instruction(top)) = f
    PROVE  IInv'
<1> DEFINE S == {stack[i] : i \in DOMAIN stack}
           n == Len(stack)
<1>1. Frames /\ Entries /\ OnceOnStack /\ Chain /\ Handled /\ CallsInlined
  BY DEF IInv
<1>2. program' = program /\ pdg' = pdg /\ program \in Programs
  BY <1>1 DEF Construct, Frames
<1>3. n \in Nat /\ DOMAIN stack = 1 .. n /\ stack \in Seq(S)
  BY <1>1 DEF Frames
<1>4. /\ stack' \in Seq(S \cup {Frame(f)}) /\ Len(stack') = n + 1 /\ DOMAIN stack' = 1 .. n + 1
      /\ stack'[n + 1] = Frame(f)
      /\ \A i \in 1 .. n : stack'[i] = stack[i] /\ i \in 1 .. n + 1 /\ i # n + 1
      /\ \A i \in 1 .. n + 1 : i \in 1 .. n \/ i = n + 1
  <2>1. stack' = Append(stack, Frame(f))
    BY DEF Construct
  <2> HIDE DEF S
  <2>2. stack \in Seq(S \cup {Frame(f)}) /\ Frame(f) \in S \cup {Frame(f)}
    BY <1>3
  <2> HIDE DEF n
  <2> QED BY <1>3, <2>1, <2>2 DEF n
<1>5. /\ entry' \in [Fn -> {"absent", "None", "Some"}] /\ entry'[f] = "None"
      /\ \A g \in Fn : /\ g # f => entry'[g] = entry[g]
                       /\ entry'[g] = "Some" <=> entry[g] = "Some"
  BY <1>1 DEF Construct, Entries
<1>6. \A i \in 1 .. n : stack[i].fn # f /\ stack[i].fn \in Fn
  BY <1>1, <1>3 DEF Entries, Frames, FrameOK
<1>7. /\ Frame(f).fn = f /\ Frame(f).pass = "iterate" /\ Frame(f).at = 1
      /\ Frame(f).handled = <<>> /\ Frame(f).graph = EmptyGraph
      /\ DOMAIN Frame(f) = {"fn", "pass", "at", "state", "graph", "handled"}
  BY DEF Frame
<1>n. n # 0 => stack # <<>> /\ top = stack[n]
  BY <1>3 DEF top
<1> HIDE DEF S, n
<1>8. Frames'
  <2>1. FrameOK(Frame(f))
    <3>1. Len(code(f)) \in Nat
      BY <1>2, CodeFacts
    <3>2. 1 \in 1 .. Len(code(f)) + 1
      BY <3>1
    <3>3. DOMAIN EmptyGraph = {"nodes", "edges"}
      BY DEF EmptyGraph
    <3> QED BY <1>7, <3>2, <3>3 DEF FrameOK
  <2>2. \A i \in DOMAIN stack' : FrameOK(stack'[i])
    BY <1>1, <1>3, <1>4, <2>1 DEF Frames
  <2> QED BY <1>2, <1>4, <2>2, FramesNext
<1>9. Entries'
  <2> SUFFICES ASSUME NEW g \in Fn
               PROVE  entry'[g] = "None" <=> \E i \in DOMAIN stack' : stack'[i].fn = g
    BY <1>1, <1>2, <1>5 DEF Entries
  <2>1. CASE g = f
    <3>1. n + 1 \in DOMAIN stack' /\ stack'[n + 1].fn = f
      BY <1>3, <1>4, <1>7
    <3> QED BY <1>5, <2>1, <3>1
  <2>2. CASE g # f
    <3>1. entry[g] = "None" <=> \E i \in 1 .. n : stack[i].fn = g
      BY <1>1, <1>3 DEF Entries
    <3> QED BY <1>4, <1>5, <1>7, <2>2, <3>1
  <2> QED BY <2>1, <2>2
<1>10. OnceOnStack'
  <2>1. \A i, j \in 1 .. n : stack[i].fn = stack[j].fn => i = j
    BY <1>1, <1>3 DEF OnceOnStack
  <2>2. \A i, j \in DOMAIN stack' : stack'[i].fn = stack'[j].fn => i = j
    BY <1>4, <1>6, <1>7, <2>1
  <2> QED BY <2>2 DEF OnceOnStack
<1>11. Chain'
  <2>1. \A i, j \in 1 .. n : i <= j => Reaches(Fn, call_graph, stack[i].fn, stack[j].fn)
    BY <1>1, <1>3 DEF Chain
  <2>2. ASSUME NEW i \in 1 .. n PROVE Reaches(Fn, call_graph, stack[i].fn, f)
    <3>1. stack # <<>> /\ top = stack[n] /\ n \in 1 .. n /\ i <= n
      BY <1>3, <1>n
    <3>2. <<top.fn, f>> \in call_graph
      BY <1>1, <3>1, Edge
    <3>3. top.fn \in Fn /\ stack[i].fn \in Fn
      BY <1>6, <3>1
    <3>4. Reaches(Fn, call_graph, stack[i].fn, top.fn)
      BY <2>1, <3>1
    <3> QED BY <3>2, <3>3, <3>4, LongerPath
  <2>3. Reaches(Fn, call_graph, f, f)
    BY DEF Reaches
  <2>4. \A i, j \in 1 .. n + 1 : i <= j => Reaches(Fn, call_graph, stack'[i].fn, stack'[j].fn)
    <3> SUFFICES ASSUME NEW i \in 1 .. n + 1, NEW j \in 1 .. n + 1, i <= j
                 PROVE  Reaches(Fn, call_graph, stack'[i].fn, stack'[j].fn)
      OBVIOUS
    <3>1. CASE j # n + 1
      <4>1. i # n + 1
        BY <1>3, <3>1
      <4> QED BY <1>4, <2>1, <3>1, <4>1
    <3>2. CASE j = n + 1
      BY <1>4, <1>7, <2>2, <2>3, <3>2
    <3> QED BY <3>1, <3>2
  <2> QED BY <1>2, <1>4, <2>4, ChainNext
<1>12. Handled'
  <2>1. ASSUME NEW i \in 1 .. n
        PROVE  \A l \in DOMAIN stack'[i].handled : Determined(i, l)'
    <3> SUFFICES ASSUME NEW l \in DOMAIN stack[i].handled PROVE Determined(i, l)'
      BY <1>4
    <3>1. Determined(i, l)
      BY <1>1, <1>3 DEF Handled
    <3>2. stack[i].fn \in Fn /\ stack'[i] = stack[i]
      BY <1>4, <1>6
    <3>3. \A j \in 1 .. i : stack'[j] = stack[j]
      BY <1>3, <1>4
    <3> DEFINE c == code(stack[i].fn)[l]
               w == wanted(stack[i].fn, c)
    <3>4. l \in calls(stack[i].fn) =>
              /\ stack[i].handled[l] = determine_call_handling(stack[i].fn, c)
              /\ w # None => entry[w] = "Some" \/ \E j \in 1 .. i : stack[j].fn = w
      BY <3>1 DEF Determined
    <3>5. l \in calls(stack[i].fn) /\ w # None => w \in Fn
      BY <1>2, <3>2, WantedFacts
    <3> QED BY <1>2, <1>5, <3>2, <3>3, <3>4, <3>5, DeterminedNext
  <2> SUFFICES ASSUME NEW i \in 1 .. n + 1
               PROVE  /\ stack'[i].pass = "iterate" =>
                             DOMAIN stack'[i].handled = 1 .. stack'[i].at - 1
                      /\ stack'[i].pass # "iterate" =>
                             DOMAIN stack'[i].handled = DOMAIN code(stack'[i].fn)
                      /\ \E H : stack'[i].handled \in Seq(H)
                      /\ \A l \in DOMAIN stack'[i].handled : Determined(i, l)'
    BY <1>2, <1>4, HandledNext
  <2>2. CASE i \in 1 .. n
    <3>1. /\ DOMAIN stack[i].handled =
                IF stack[i].pass = "iterate" THEN 1 .. stack[i].at - 1
                ELSE DOMAIN code(stack[i].fn)
          /\ stack[i].handled \in Seq({stack[i].handled[l] : l \in DOMAIN stack[i].handled})
      BY <1>1, <1>3, <2>2 DEF Handled
    <3> QED BY <1>4, <2>1, <2>2, <3>1
  <2>3. CASE i = n + 1
    <3>1. DOMAIN <<>> = 1 .. 1 - 1 /\ <<>> \in Seq({}) /\ \A l : l \notin DOMAIN <<>>
      OBVIOUS
    <3>2. stack'[i] = Frame(f)
      BY <1>4, <2>3
    <3> QED BY <1>7, <3>1, <3>2
  <2> QED BY <1>4, <2>2, <2>3
<1>13. CallsInlined'
  <2>1. ASSUME NEW g \in Fn, NEW l \in calls(g), NEW h, Inlined(g, l, h)
        PROVE  Inlined(g, l, h)'
    <3>1. wanted(g, code(g)[l]) # None => wanted(g, code(g)[l]) \in Fn
      BY <1>2, WantedFacts
    <3> QED BY <1>2, <1>5, <2>1, <3>1, InlinedKept
  <2>2. ASSUME NEW g \in Fn, entry'[g] = "Some", NEW l \in calls(g)
        PROVE  Inlined(g, l, pdg[g])
    BY <1>1, <1>5, <2>2 DEF CallsInlined, built
  <2>3. ASSUME NEW i \in DOMAIN stack', stack'[i].pass = "visit",
               NEW l \in calls(stack'[i].fn), l < stack'[i].at
        PROVE  stack'[i].fn \in Fn /\ Inlined(stack'[i].fn, l, stack'[i].graph)
    BY <1>1, <1>3, <1>4, <1>6, <1>7, <2>3 DEF CallsInlined
  <2> QED BY <1>2, <2>1, <2>2, <2>3, CallsInlinedNext
<1> QED BY <1>8, <1>9, <1>10, <1>11, <1>12, <1>13 DEF IInv

-----------------------------------------------------------------------------
(***************************************************************************)
(* The innermost frame goes on, to one for the same function that the      *)
(* invariant allows in its place.                                          *)
(***************************************************************************)
LEMMA AdvanceIInv ==
    ASSUME IInv, stack # <<>>, NEW fr, Advance(fr), UNCHANGED <<program, entry, pdg>>,
           FrameOK(fr), fr.fn = top.fn,
           fr.pass = "iterate" => DOMAIN fr.handled = 1 .. fr.at - 1,
           fr.pass # "iterate" => DOMAIN fr.handled = DOMAIN code(fr.fn),
           \E S : fr.handled \in Seq(S),
           \A l \in DOMAIN fr.handled : l \in calls(fr.fn) =>
                LET c == code(fr.fn)[l]
                    w == wanted(fr.fn, c)
                IN  /\ fr.handled[l] = determine_call_handling(fr.fn, c)
                    /\ w # None =>
                            entry[w] = "Some" \/ \E j \in DOMAIN stack : stack[j].fn = w,
           fr.pass = "visit" =>
                \A l \in calls(fr.fn) : l < fr.at => Inlined(fr.fn, l, fr.graph)
    PROVE  IInv'
<1> DEFINE S == {stack[i] : i \in DOMAIN stack}
           n == Len(stack)
<1>1. Frames /\ Entries /\ OnceOnStack /\ Chain /\ Handled /\ CallsInlined
  BY DEF IInv
<1>2. program' = program /\ pdg' = pdg /\ entry' = entry /\ program \in Programs
  BY <1>1 DEF Frames
<1>3. n \in Nat /\ n \in DOMAIN stack /\ DOMAIN stack = 1 .. n /\ top = stack[n] /\ stack \in Seq(S)
  BY <1>1, TopFacts DEF Frames
<1>4. /\ stack' \in Seq(S \cup {fr}) /\ DOMAIN stack' = 1 .. n /\ stack'[n] = fr
      /\ \A i \in 1 .. n : /\ i # n => stack'[i] = stack[i]
                           /\ stack'[i].fn = stack[i].fn /\ stack[i].fn \in Fn
  <2>1. stack' = [stack EXCEPT ![n] = fr]
    BY DEF Advance
  <2>2. stack' \in Seq(S \cup {fr}) /\ DOMAIN stack' = 1 .. n /\ stack'[n] = fr
        /\ \A i \in 1 .. n : i # n => stack'[i] = stack[i]
    <3> HIDE DEF S, n
    <3> QED BY <1>3, <2>1
  <2>3. \A i \in 1 .. n : stack[i].fn \in Fn
    BY <1>1, <1>3 DEF Frames, FrameOK
  <2> HIDE DEF S, n
  <2> QED BY <1>3, <2>2, <2>3
<1> HIDE DEF S, n
<1>5. Frames'
  <2>1. \A i \in DOMAIN stack' : FrameOK(stack'[i])
    BY <1>1, <1>3, <1>4 DEF Frames
  <2> QED BY <1>2, <1>4, <2>1, FramesNext
<1>6. Entries'
  BY <1>1, <1>2, <1>3, <1>4 DEF Entries
<1>7. OnceOnStack'
  BY <1>1, <1>3, <1>4 DEF OnceOnStack
<1>8. Chain'
  <2>1. \A i, j \in 1 .. n : i <= j => Reaches(Fn, call_graph, stack'[i].fn, stack'[j].fn)
    BY <1>1, <1>3, <1>4 DEF Chain
  <2> QED BY <1>2, <1>4, <2>1, ChainNext
<1>9. Handled'
  <2> SUFFICES ASSUME NEW i \in 1 .. n
               PROVE  /\ stack'[i].pass = "iterate" =>
                             DOMAIN stack'[i].handled = 1 .. stack'[i].at - 1
                      /\ stack'[i].pass # "iterate" =>
                             DOMAIN stack'[i].handled = DOMAIN code(stack'[i].fn)
                      /\ \E H : stack'[i].handled \in Seq(H)
                      /\ \A l \in DOMAIN stack'[i].handled : Determined(i, l)'
    BY <1>2, <1>4, HandledNext
  <2>1. CASE i = n
    <3> SUFFICES ASSUME NEW l \in DOMAIN fr.handled PROVE Determined(i, l)'
      BY <1>4, <2>1
    <3> DEFINE c == code(fr.fn)[l]
               w == wanted(fr.fn, c)
    <3>1. l \in calls(fr.fn) =>
              /\ fr.handled[l] = determine_call_handling(fr.fn, c)
              /\ w # None => entry[w] = "Some" \/ \E j \in 1 .. i : stack'[j].fn = w
      BY <1>3, <1>4, <2>1
    <3> QED BY <1>2, <1>4, <2>1, <3>1, DeterminedNext
  <2>2. CASE i # n
    <3>1. /\ DOMAIN stack[i].handled =
                IF stack[i].pass = "iterate" THEN 1 .. stack[i].at - 1
                ELSE DOMAIN code(stack[i].fn)
          /\ stack[i].handled \in Seq({stack[i].handled[l] : l \in DOMAIN stack[i].handled})
      BY <1>1, <1>3 DEF Handled
    <3>2. \A l \in DOMAIN stack[i].handled : Determined(i, l)'
      <4> TAKE l \in DOMAIN stack[i].handled
      <4>1. Determined(i, l)
        BY <1>1, <1>3 DEF Handled
      <4>2. stack'[i] = stack[i] /\ \A j \in 1 .. i : stack'[j].fn = stack[j].fn
        BY <1>3, <1>4, <2>2
      <4> DEFINE c == code(stack[i].fn)[l]
                 w == wanted(stack[i].fn, c)
      <4>3. l \in calls(stack[i].fn) =>
                /\ stack[i].handled[l] = determine_call_handling(stack[i].fn, c)
                /\ w # None => entry[w] = "Some" \/ \E j \in 1 .. i : stack[j].fn = w
        BY <4>1 DEF Determined
      <4> QED BY <1>2, <4>2, <4>3, DeterminedNext
    <3> QED BY <1>4, <2>2, <3>1, <3>2
  <2> QED BY <2>1, <2>2
<1>10. CallsInlined'
  <2>1. ASSUME NEW g, NEW l, NEW h, Inlined(g, l, h)
        PROVE  Inlined(g, l, h)'
    BY <1>2, <2>1, InlinedKept
  <2>2. ASSUME NEW g \in Fn, entry[g] = "Some", NEW l \in calls(g)
        PROVE  Inlined(g, l, pdg[g])
    BY <1>1, <2>2 DEF CallsInlined, built
  <2>3. ASSUME NEW i \in DOMAIN stack', stack'[i].pass = "visit",
               NEW l \in calls(stack'[i].fn), l < stack'[i].at
        PROVE  Inlined(stack'[i].fn, l, stack'[i].graph)
    <3>1. CASE i = n
      BY <1>4, <2>3, <3>1
    <3>2. CASE i # n
      BY <1>1, <1>3, <1>4, <2>3, <3>2 DEF CallsInlined
    <3> QED BY <3>1, <3>2
  <2> QED BY <1>2, <2>1, <2>2, <2>3, CallsInlinedNext
<1> QED BY <1>5, <1>6, <1>7, <1>8, <1>9, <1>10 DEF IInv

\* What is under construction leads to the innermost frame's function.
LEMMA LeadsToTop ==
    ASSUME IInv, NEW j \in DOMAIN stack
    PROVE  Reaches(Fn, call_graph, stack[j].fn, top.fn)
<1>1. stack # <<>>
  BY DEF IInv, Frames
<1>2. /\ Len(stack) \in Nat /\ Len(stack) \in DOMAIN stack /\ DOMAIN stack = 1 .. Len(stack)
      /\ top = stack[Len(stack)]
  BY <1>1, TopFacts DEF IInv
<1>3. j <= Len(stack)
  BY <1>2
<1> QED BY <1>2, <1>3 DEF IInv, Chain

-----------------------------------------------------------------------------
(***************************************************************************)
(* The steps of a construction.                                            *)
(***************************************************************************)
\* A call that the innermost frame does not ask for is of a function whose graph is
\* there, or is under construction.
LEMMA Asked ==
    ASSUME IInv, stack # <<>>, ~asks(top), ~at_end(top)
    PROVE  LET c == instruction(top)
               w == wanted(top.fn, c)
           IN  c.op = "call" /\ w # None =>
                   entry[w] = "Some" \/ \E j \in DOMAIN stack : stack[j].fn = w
<1> DEFINE c == instruction(top)
           w == wanted(top.fn, c)
<1> SUFFICES ASSUME c.op = "call", w # None
             PROVE  entry[w] = "Some" \/ \E j \in DOMAIN stack : stack[j].fn = w
  OBVIOUS
<1>1. entry[w] # "absent"
  BY DEF asks
<1>2. FrameOK(top) /\ program \in Programs
  BY TopFacts DEF IInv, Frames
<1>3. top.fn \in Fn /\ top.at \in 1 .. Len(code(top.fn)) + 1
  BY <1>2 DEF FrameOK
<1>4. top.at \in calls(top.fn) /\ c = code(top.fn)[top.at]
  <2>1. Len(code(top.fn)) \in Nat /\ DOMAIN code(top.fn) = 1 .. Len(code(top.fn))
    BY <1>2, <1>3, CodeFacts
  <2>2. ~(top.at > Len(code(top.fn)))
    BY DEF at_end
  <2>3. c = code(top.fn)[top.at]
    BY DEF instruction
  <2> QED BY <1>3, <2>1, <2>2, <2>3 DEF calls
<1>5. w \in Fn
  BY <1>2, <1>3, <1>4, WantedFacts
<1>6. entry[w] \in {"absent", "None", "Some"} /\ (entry[w] = "None" <=> \E j \in DOMAIN stack : stack[j].fn = w)
  BY <1>5 DEF IInv, Entries
<1> QED BY <1>1, <1>6

\* What the passes know of the innermost frame.
LEMMA TopKnown ==
    ASSUME IInv, stack # <<>>
    PROVE  /\ program \in Programs /\ FrameOK(top) /\ top.fn \in Fn
           /\ Len(code(top.fn)) \in Nat /\ top.at \in 1 .. Len(code(top.fn)) + 1
           /\ DOMAIN code(top.fn) = 1 .. Len(code(top.fn))
           /\ top.pass = "iterate" => DOMAIN top.handled = 1 .. top.at - 1
           /\ top.pass # "iterate" => DOMAIN top.handled = DOMAIN code(top.fn)
           /\ \E S : top.handled \in Seq(S)
           /\ \A l \in DOMAIN top.handled : l \in calls(top.fn) =>
                LET c == code(top.fn)[l]
                    w == wanted(top.fn, c)
                IN  /\ top.handled[l] = determine_call_handling(top.fn, c)
                    /\ w # None =>
                            entry[w] = "Some" \/ \E j \in DOMAIN stack : stack[j].fn = w
           /\ top.pass = "visit" =>
                \A l \in calls(top.fn) : l < top.at => Inlined(top.fn, l, top.graph)
<1> DEFINE n == Len(stack)
<1>1. /\ n \in DOMAIN stack /\ DOMAIN stack = 1 .. n /\ top = stack[n]
      /\ FrameOK(top) /\ program \in Programs
  BY TopFacts DEF IInv, Frames
<1>2. top.fn \in Fn /\ top.at \in 1 .. Len(code(top.fn)) + 1
  BY <1>1 DEF FrameOK
<1>3. Len(code(top.fn)) \in Nat /\ DOMAIN code(top.fn) = 1 .. Len(code(top.fn))
  BY <1>1, <1>2, CodeFacts
<1> HIDE DEF n
<1>4. /\ DOMAIN top.handled =
            IF top.pass = "iterate" THEN 1 .. top.at - 1 ELSE DOMAIN code(top.fn)
      /\ top.handled \in Seq({top.handled[l] : l \in DOMAIN top.handled})
  BY <1>1 DEF IInv, Handled
<1>5. \A l \in DOMAIN top.handled : Determined(n, l)
  BY <1>1 DEF IInv, Handled
<1>6. \A l \in DOMAIN top.handled : l \in calls(top.fn) =>
            LET c == code(top.fn)[l]
                w == wanted(top.fn, c)
            IN  /\ top.handled[l] = determine_call_handling(top.fn, c)
                /\ w # None => entry[w] = "Some" \/ \E j \in DOMAIN stack : stack[j].fn = w
  BY <1>1, <1>5 DEF Determined
<1>7. top.pass = "visit" =>
            \A l \in calls(top.fn) : l < top.at => Inlined(top.fn, l, top.graph)
  BY <1>1 DEF IInv, CallsInlined
<1> QED BY <1>1, <1>2, <1>3, <1>4, <1>6, <1>7

LEMMA IterateIInv == IInv /\ Iterate => IInv'
<1> SUFFICES ASSUME IInv, Iterate PROVE IInv'
  OBVIOUS
<1>1. /\ stack # <<>> /\ ~asks(top) /\ top.pass = "iterate" /\ ~at_end(top)
      /\ UNCHANGED <<program, entry, pdg>>
      /\ Advance([mutate(top) EXCEPT !.handled = Append(@, handling(top))])
  BY DEF Iterate, Busy
<1> DEFINE fr == [mutate(top) EXCEPT !.handled = Append(@, handling(top))]
           f == top.fn
           m == top.at
<1>2. /\ FrameOK(top) /\ f \in Fn /\ Len(code(f)) \in Nat /\ m \in 1 .. Len(code(f)) + 1
      /\ DOMAIN top.handled = 1 .. m - 1
  BY <1>1, TopKnown
<1>3. DOMAIN top = {"fn", "pass", "at", "state", "graph", "handled"}
      /\ DOMAIN top.graph = {"nodes", "edges"}
  BY <1>2 DEF FrameOK
<1>4. /\ DOMAIN fr = DOMAIN top /\ fr.fn = f /\ fr.pass = "iterate" /\ fr.at = m + 1
      /\ fr.graph = top.graph /\ fr.handled = Append(top.handled, handling(top))
  BY <1>1, <1>3 DEF mutate
<1>5. ~(m > Len(code(f)))
  BY <1>1 DEF at_end
<1>6. FrameOK(fr)
  <2>1. m + 1 \in 1 .. Len(code(f)) + 1
    BY <1>2, <1>5
  <2> HIDE DEF fr, f, m
  <2> QED BY <1>2, <1>3, <1>4, <2>1 DEF FrameOK
<1>7. PICK H : top.handled \in Seq(H)
  BY <1>1, TopKnown
<1> DEFINE h == handling(top)
<1>8. /\ fr.handled \in Seq(H \cup {h}) /\ DOMAIN fr.handled = 1 .. m
      /\ fr.handled[m] = h
      /\ \A l \in 1 .. m - 1 : fr.handled[l] = top.handled[l]
  <2>1. top.handled \in Seq(H \cup {h}) /\ Len(top.handled) = m - 1
    <3>1. Len(top.handled) \in Nat /\ DOMAIN top.handled = 1 .. Len(top.handled)
      BY <1>7
    <3> HIDE DEF h, m
    <3> QED BY <1>2, <1>7, <3>1 DEF m
  <2> HIDE DEF h, m, fr
  <2> QED BY <1>2, <1>4, <2>1 DEF h
<1>9. ASSUME NEW l \in DOMAIN fr.handled, l \in calls(f)
      PROVE  LET c == code(f)[l]
                 w == wanted(f, c)
             IN  /\ fr.handled[l] = determine_call_handling(f, c)
                 /\ w # None => entry[w] = "Some" \/ \E j \in DOMAIN stack : stack[j].fn = w
  <2>1. CASE l = m
    <3>1. instruction(top) = code(f)[l] /\ instruction(top).op = "call"
      BY <1>9, <2>1 DEF instruction, calls
    <3>2. h = determine_call_handling(f, code(f)[l])
      BY <3>1 DEF handling
    <3> HIDE DEF fr, h
    <3> QED BY <1>1, <1>8, <2>1, <3>1, <3>2, Asked
  <2>2. CASE l # m
    <3> HIDE DEF fr, h
    <3>1. l \in DOMAIN top.handled /\ fr.handled[l] = top.handled[l]
      BY <1>2, <1>8, <2>2
    <3> QED BY <1>1, <1>9, <3>1, TopKnown
  <2> QED BY <2>1, <2>2
<1>10. DOMAIN fr.handled = 1 .. fr.at - 1 /\ \E S : fr.handled \in Seq(S)
  <2> HIDE DEF fr, h, m
  <2>1. m \in Int
    BY <1>2
  <2>2. fr.at - 1 = m
    BY <1>4, <2>1
  <2> QED BY <1>8, <2>2
<1> HIDE DEF fr
<1> QED BY <1>1, <1>4, <1>6, <1>9, <1>10, AdvanceIInv DEF fr

LEMMA FixpointIInv == IInv /\ Fixpoint => IInv'
<1> SUFFICES ASSUME IInv, Fixpoint PROVE IInv'
  OBVIOUS
<1> DEFINE fr == [top EXCEPT !.pass = "visit", !.at = 1, !.state = {}]
           f == top.fn
<1>1. /\ stack # <<>> /\ top.pass = "iterate" /\ at_end(top)
      /\ UNCHANGED <<program, entry, pdg>> /\ Advance(fr)
  BY DEF Fixpoint, Busy
<1>2. /\ FrameOK(top) /\ f \in Fn /\ Len(code(f)) \in Nat /\ top.at \in 1 .. Len(code(f)) + 1
      /\ DOMAIN code(f) = 1 .. Len(code(f)) /\ DOMAIN top.handled = 1 .. top.at - 1
  BY <1>1, TopKnown
<1>3. DOMAIN top = {"fn", "pass", "at", "state", "graph", "handled"}
      /\ DOMAIN top.graph = {"nodes", "edges"}
  BY <1>2 DEF FrameOK
<1>4. /\ DOMAIN fr = DOMAIN top /\ fr.fn = f /\ fr.pass = "visit" /\ fr.at = 1
      /\ fr.graph = top.graph /\ fr.handled = top.handled
  BY <1>3
<1>5. FrameOK(fr)
  <2>1. 1 \in 1 .. Len(code(f)) + 1
    BY <1>2
  <2> HIDE DEF fr, f
  <2> QED BY <1>2, <1>3, <1>4, <2>1 DEF FrameOK
<1>6. DOMAIN top.handled = DOMAIN code(f)
  <2>1. top.at > Len(code(f))
    BY <1>1 DEF at_end
  <2>2. top.at - 1 = Len(code(f))
    <3> HIDE DEF f
    <3> QED BY <1>2, <2>1
  <2> QED BY <1>2, <2>2
<1>7. \A l \in calls(f) : ~(l < 1)
  BY <1>2 DEF calls
<1>8. /\ \E S : top.handled \in Seq(S)
      /\ \A l \in DOMAIN top.handled : l \in calls(f) =>
            LET c == code(f)[l]
                w == wanted(f, c)
            IN  /\ top.handled[l] = determine_call_handling(f, c)
                /\ w # None => entry[w] = "Some" \/ \E j \in DOMAIN stack : stack[j].fn = w
  BY <1>1, TopKnown
<1> HIDE DEF fr
<1> QED BY <1>1, <1>4, <1>5, <1>6, <1>7, <1>8, AdvanceIInv

\* What the visit of a call adds has the wanted graph in it, if it was determined to be
\* there, and else the call is recursive.
LEMMA VisitInlines ==
    ASSUME IInv, Visit, instruction(top).op = "call"
    PROVE  Inlined(top.fn, top.at, visited(top.fn, instruction(top), top.state, here(top)))
<1> DEFINE f == top.fn
           c == instruction(top)
           w == wanted(f, c)
           v == visited(f, c, top.state, here(top))
           child == push_call_string_root(pdg[w], GlobalLocation(f, top.at))
<1>1. stack # <<>> /\ ~asks(top) /\ ~at_end(top) /\ c.op = "call"
  BY DEF Visit, Busy
<1>2. c = code(f)[top.at]
  BY DEF instruction
<1> SUFFICES ASSUME w # None, ~Reaches(Fn, call_graph, w, f)
             PROVE  entry[w] = "Some" /\ child.nodes \subseteq v.nodes /\ child.edges \subseteq v.edges
  BY <1>2 DEF Inlined
<1>3. entry[w] = "Some"
  BY <1>1, Asked, LeadsToTop
<1>4. determine_call_handling(f, c) = "Ready"
  <2> HIDE DEF w, c, f
  <2>1. wanted(f, c) # None /\ entry[wanted(f, c)] = "Some"
    BY <1>3 DEF w
  <2>2. c.callee \notin approximated /\ ~is_async(c.callee)
    BY <2>1 DEF wanted
  <2> QED BY <2>1, <2>2 DEF determine_call_handling
<1>5. leaf(here(top)) = GlobalLocation(f, top.at)
  BY DEF leaf, here, single
<1>6. v = handle_as_inline(f, c, top.state, here(top))
  <2> HIDE DEF f, c
  <2>1. c.op = "call" /\ c.op # "assign"
    BY <1>1
  <2> QED BY <1>4, <2>1 DEF visited
<1>7. child.nodes \subseteq v.nodes /\ child.edges \subseteq v.edges
  <2> HIDE DEF f, c
  <2>1. child = push_call_string_root(pdg[wanted(f, c)], leaf(here(top)))
    BY <1>5
  <2> HIDE DEF child
  <2> QED BY <1>6, <2>1 DEF handle_as_inline
<1> QED BY <1>3, <1>7

LEMMA VisitIInv == IInv /\ Visit => IInv'
<1> SUFFICES ASSUME IInv, Visit PROVE IInv'
  OBVIOUS
<1> DEFINE v == visited(top.fn, instruction(top), top.state, here(top))
           fr == [mutate(top) EXCEPT !.graph = Join(@, v)]
           f == top.fn
           m == top.at
<1>1. /\ stack # <<>> /\ ~asks(top) /\ top.pass = "visit" /\ ~at_end(top)
      /\ UNCHANGED <<program, entry, pdg>> /\ Advance(fr)
  BY DEF Visit, Busy
<1>2. /\ FrameOK(top) /\ f \in Fn /\ Len(code(f)) \in Nat /\ m \in 1 .. Len(code(f)) + 1
      /\ DOMAIN code(f) = 1 .. Len(code(f)) /\ DOMAIN top.handled = DOMAIN code(f)
  BY <1>1, TopKnown
<1>3. DOMAIN top = {"fn", "pass", "at", "state", "graph", "handled"}
      /\ DOMAIN top.graph = {"nodes", "edges"}
  BY <1>2 DEF FrameOK
<1> HIDE DEF v
<1>4. /\ DOMAIN fr = DOMAIN top /\ fr.fn = f /\ fr.pass = "visit" /\ fr.at = m + 1
      /\ fr.graph = Join(top.graph, v) /\ fr.handled = top.handled
  BY <1>1, <1>3 DEF mutate
<1> HIDE DEF fr
<1>5. /\ DOMAIN fr.graph = {"nodes", "edges"}
      /\ top.graph.nodes \subseteq fr.graph.nodes /\ top.graph.edges \subseteq fr.graph.edges
      /\ v.nodes \subseteq fr.graph.nodes /\ v.edges \subseteq fr.graph.edges
  BY <1>4 DEF Join
<1>6. ~(m > Len(code(f)))
  BY <1>1 DEF at_end
<1>7. FrameOK(fr)
  <2>1. m + 1 \in 1 .. Len(code(f)) + 1
    BY <1>2, <1>6
  <2> HIDE DEF f, m
  <2> QED BY <1>2, <1>3, <1>4, <1>5, <2>1 DEF FrameOK
<1>8. /\ \E S : top.handled \in Seq(S)
      /\ \A l \in DOMAIN top.handled : l \in calls(f) =>
            LET c == code(f)[l]
                w == wanted(f, c)
            IN  /\ top.handled[l] = determine_call_handling(f, c)
                /\ w # None => entry[w] = "Some" \/ \E j \in DOMAIN stack : stack[j].fn = w
  BY <1>1, TopKnown
<1>9. ASSUME NEW l \in calls(f), l < m + 1
      PROVE  Inlined(f, l, fr.graph)
  <2>1. CASE l < m
    <3>1. Inlined(f, l, top.graph)
      BY <1>1, <2>1, TopKnown
    <3> QED BY <1>5, <3>1, InlinedIn
  <2>2. CASE l = m
    <3>1. instruction(top).op = "call"
      BY <2>2 DEF instruction, calls
    <3>2. Inlined(f, l, v)
      BY <2>2, <3>1, VisitInlines DEF v
    <3> QED BY <1>5, <3>2, InlinedIn
  <2>3. l \in Int /\ m \in Int
    BY <1>2 DEF calls
  <2> QED BY <1>9, <2>1, <2>2, <2>3
<1> QED BY <1>1, <1>2, <1>4, <1>7, <1>8, <1>9, AdvanceIInv

\* The graph of the innermost frame goes to the cache.
LEMMA FinishIInv == IInv /\ Finish => IInv'
<1> SUFFICES ASSUME IInv, Finish PROVE IInv'
  OBVIOUS
<1> DEFINE f == top.fn
           n == Len(stack)
           S == {stack[i] : i \in DOMAIN stack}
           g == [top.graph EXCEPT !.edges = @ \cup returns(f, top.state)]
<1>1. Frames /\ Entries /\ OnceOnStack /\ Chain /\ Handled /\ CallsInlined
  BY DEF IInv
<1>2. stack # <<>> /\ top.pass = "visit" /\ at_end(top) /\ program' = program /\ program \in Programs
  BY <1>1 DEF Finish, Busy, Frames
<1>3. /\ n \in Nat /\ n # 0 /\ n \in 1 .. n /\ DOMAIN stack = 1 .. n /\ top = stack[n]
      /\ stack \in Seq(S)
  BY <1>1, <1>2, TopFacts DEF Frames
<1>4. CASE UNCHANGED <<entry, pdg, stack>>
  <2>1. Frames'
    BY <1>1, <1>2, <1>4, FramesNext DEF Frames
  <2>2. Entries' /\ OnceOnStack'
    BY <1>1, <1>4 DEF Entries, OnceOnStack
  <2>3. Chain'
    BY <1>1, <1>2, <1>4, ChainNext DEF Chain
  <2>4. Handled'
    <3>1. \A i \in DOMAIN stack : \A l \in DOMAIN stack[i].handled : Determined(i, l)'
      <4> TAKE i \in DOMAIN stack
      <4> TAKE l \in DOMAIN stack[i].handled
      <4>1. Determined(i, l)
        BY <1>1 DEF Handled
      <4> DEFINE c == code(stack[i].fn)[l]
                 w == wanted(stack[i].fn, c)
      <4>2. l \in calls(stack[i].fn) =>
                /\ stack[i].handled[l] = determine_call_handling(stack[i].fn, c)
                /\ w # None => entry[w] = "Some" \/ \E j \in 1 .. i : stack[j].fn = w
        BY <4>1 DEF Determined
      <4> QED BY <1>2, <1>4, <4>2, DeterminedNext
    <3>2. ASSUME NEW i \in DOMAIN stack
          PROVE  /\ DOMAIN stack[i].handled =
                        IF stack[i].pass = "iterate" THEN 1 .. stack[i].at - 1
                        ELSE DOMAIN code(stack[i].fn)
                 /\ stack[i].handled \in Seq({stack[i].handled[l] : l \in DOMAIN stack[i].handled})
      BY <1>1 DEF Handled
    <3> QED BY <1>2, <1>4, <3>1, <3>2, HandledNext
  <2>5. CallsInlined'
    <3>1. ASSUME NEW h, NEW l, NEW k, Inlined(h, l, k) PROVE Inlined(h, l, k)'
      BY <1>2, <1>4, <3>1, InlinedKept
    <3>2. ASSUME NEW h \in Fn, entry[h] = "Some", NEW l \in calls(h)
          PROVE  Inlined(h, l, pdg[h])
      BY <1>1, <3>2 DEF CallsInlined, built
    <3>3. ASSUME NEW i \in DOMAIN stack, stack[i].pass = "visit",
                 NEW l \in calls(stack[i].fn), l < stack[i].at
          PROVE  Inlined(stack[i].fn, l, stack[i].graph)
      BY <1>1, <3>3 DEF CallsInlined
    <3> QED BY <1>2, <1>4, <3>1, <3>2, <3>3, CallsInlinedNext
  <2> QED BY <2>1, <2>2, <2>3, <2>4, <2>5 DEF IInv
<1>5. CASE ~UNCHANGED <<entry, pdg, stack>>
  <2>1. /\ pdg' = [pdg EXCEPT ![f] = g] /\ entry' = [entry EXCEPT ![f] = "Some"]
        /\ stack' = SubSeq(stack, 1, n - 1)
    BY <1>5 DEF Finish
  <2>2. /\ stack' \in Seq(S) /\ DOMAIN stack' = 1 .. n - 1
        /\ \A i \in 1 .. n - 1 : stack'[i] = stack[i] /\ i \in 1 .. n /\ i # n
        /\ \A i \in 1 .. n : i \in 1 .. n - 1 \/ i = n
    <3> HIDE DEF S
    <3>1. stack' \in Seq(S) /\ Len(stack') = n - 1 /\ \A i \in 1 .. n - 1 : stack'[i] = stack[i]
      BY <1>2, <1>3, <2>1, InputsAreGraphs, Memo!Popped
    <3> HIDE DEF n
    <3> QED BY <1>3, <3>1
  <2>3. f \in Fn /\ DOMAIN top.graph = {"nodes", "edges"}
    BY <1>2, TopKnown DEF FrameOK
  <2>4. \A i \in 1 .. n - 1 : stack[i].fn \in Fn /\ stack[i].fn # f
    BY <1>1, <1>3, <2>2 DEF Frames, FrameOK, OnceOnStack
  <2>5. entry[f] = "None"
    BY <1>1, <1>3, <2>3 DEF Entries
  <2> HIDE DEF g
  <2>6. /\ entry' \in [Fn -> {"absent", "None", "Some"}] /\ DOMAIN pdg' = Fn
        /\ entry'[f] = "Some" /\ pdg'[f] = g
        /\ \A h \in Fn : h # f => entry'[h] = entry[h] /\ pdg'[h] = pdg[h]
    BY <1>1, <2>1, <2>3 DEF Entries
  <2> HIDE DEF n, S
  <2>7. Frames'
    <3>1. \A i \in DOMAIN stack' : FrameOK(stack'[i])
      BY <1>1, <1>3, <2>2 DEF Frames
    <3> QED BY <1>2, <2>2, <3>1, FramesNext
  <2>8. Entries'
    <3> SUFFICES ASSUME NEW h \in Fn
                 PROVE  entry'[h] = "None" <=> \E i \in DOMAIN stack' : stack'[i].fn = h
      BY <2>6 DEF Entries
    <3>1. CASE h = f
      BY <2>2, <2>4, <2>6, <3>1
    <3>2. CASE h # f
      <4>1. entry[h] = "None" <=> \E i \in 1 .. n : stack[i].fn = h
        BY <1>1, <1>3 DEF Entries
      <4> QED BY <1>3, <2>2, <2>6, <3>2, <4>1
    <3> QED BY <3>1, <3>2
  <2>9. OnceOnStack'
    BY <1>1, <1>3, <2>2 DEF OnceOnStack
  <2>10. Chain'
    <3>1. \A i, j \in 1 .. n - 1 : i <= j =>
             Reaches(Fn, call_graph, stack'[i].fn, stack'[j].fn)
      BY <1>1, <1>3, <2>2 DEF Chain
    <3> QED BY <1>2, <2>2, <3>1, ChainNext
  <2>11. Handled'
    <3>1. ASSUME NEW i \in 1 .. n - 1, NEW l \in DOMAIN stack[i].handled
          PROVE  Determined(i, l)'
      <4>1. Determined(i, l)
        BY <1>1, <1>3, <2>2 DEF Handled
      <4>2. \A j \in 1 .. i : j \in 1 .. n - 1
        BY <1>3
      <4> DEFINE c == code(stack[i].fn)[l]
                 w == wanted(stack[i].fn, c)
      <4>3. l \in calls(stack[i].fn) =>
                /\ stack[i].handled[l] = determine_call_handling(stack[i].fn, c)
                /\ w # None => entry[w] = "Some" \/ \E j \in 1 .. i : stack[j].fn = w
        BY <4>1 DEF Determined
      <4>4. l \in calls(stack[i].fn) /\ w # None => w \in Fn /\ w # f
        <5>1. l \in calls(stack[i].fn) /\ w # None => w \in Fn
          BY <1>2, <2>4, WantedFacts
        <5> QED BY <2>4, <2>5, <4>2, <4>3, <5>1
      <4>5. l \in calls(stack[i].fn) =>
                /\ stack[i].handled[l] = determine_call_handling(stack[i].fn, c)
                /\ w # None => /\ entry'[w] = "Some" <=> entry[w] = "Some"
                               /\ entry[w] = "Some" \/ \E j \in 1 .. i : stack'[j].fn = w
        BY <2>2, <2>6, <4>2, <4>3, <4>4
      <4>6. stack'[i] = stack[i]
        BY <2>2
      <4> QED BY <1>2, <4>5, <4>6, DeterminedNext
    <3>2. ASSUME NEW i \in 1 .. n - 1
          PROVE  /\ DOMAIN stack[i].handled =
                        IF stack[i].pass = "iterate" THEN 1 .. stack[i].at - 1
                        ELSE DOMAIN code(stack[i].fn)
                 /\ stack[i].handled \in Seq({stack[i].handled[l] : l \in DOMAIN stack[i].handled})
      BY <1>1, <1>3, <2>2 DEF Handled
    <3> QED BY <1>2, <2>2, <3>1, <3>2, HandledNext
  <2>12. CallsInlined'
    <3>1. ASSUME NEW h \in Fn, NEW l \in calls(h), NEW k, Inlined(h, l, k)
          PROVE  Inlined(h, l, k)'
      <4>1. wanted(h, code(h)[l]) # None => wanted(h, code(h)[l]) \in Fn
        BY <1>2, WantedFacts
      <4> QED BY <1>2, <2>5, <2>6, <3>1, <4>1, InlinedKept
    <3>2. ASSUME NEW h \in Fn, entry'[h] = "Some", NEW l \in calls(h)
          PROVE  Inlined(h, l, pdg'[h])
      <4>1. CASE h = f
        <5>1. l < top.at
          <6>1. top.at > Len(code(f)) /\ l \in 1 .. Len(code(f)) /\ Len(code(f)) \in Nat
            BY <1>2, <3>2, <4>1, TopKnown DEF at_end, calls
          <6>2. top.at \in Int
            BY <1>2, TopKnown
          <6> QED BY <6>1, <6>2
        <5>2. Inlined(f, l, top.graph)
          BY <1>2, <4>1, <5>1, TopKnown
        <5>3. top.graph.nodes \subseteq g.nodes /\ top.graph.edges \subseteq g.edges
          BY <2>3 DEF g
        <5> QED BY <2>6, <4>1, <5>2, <5>3, InlinedIn
      <4>2. CASE h # f
        BY <1>1, <2>6, <3>2, <4>2 DEF CallsInlined, built
      <4> QED BY <4>1, <4>2
    <3>3. ASSUME NEW i \in DOMAIN stack', stack'[i].pass = "visit",
                 NEW l \in calls(stack'[i].fn), l < stack'[i].at
          PROVE  stack'[i].fn \in Fn /\ Inlined(stack'[i].fn, l, stack'[i].graph)
      BY <1>1, <1>3, <2>2, <2>4, <3>3 DEF CallsInlined
    <3> QED BY <1>2, <3>1, <3>2, <3>3, CallsInlinedNext
  <2> QED BY <2>7, <2>8, <2>9, <2>10, <2>11, <2>12 DEF IInv
<1> QED BY <1>4, <1>5

-----------------------------------------------------------------------------
(***************************************************************************)
(* The steps around the construction only choose the function to start     *)
(* with: those of the queue, and the bodies of async functions.            *)
(***************************************************************************)
QueueOK == queue \in Seq(Fn) /\ (phase = "types" => queue # <<>>)

SInv == IInv /\ QueueOK

LEMMA InitSInv == Init => SInv
<1> SUFFICES ASSUME Init PROVE SInv
  OBVIOUS
<1>1. /\ program \in Programs /\ entry = [f \in Fn |-> "absent"] /\ pdg = [f \in Fn |-> EmptyGraph]
      /\ stack = <<>> /\ queue = functions_to_analyze(program) /\ phase = "construct"
  BY DEF Init, NothingGenerated, NothingConstructed
<1>2. DOMAIN stack = {} /\ stack \in Seq({stack[i] : i \in DOMAIN stack})
  BY <1>1
<1>3. Frames
  BY <1>1, <1>2 DEF Frames
<1>4. Entries
  BY <1>1, <1>2 DEF Entries
<1>5. OnceOnStack /\ Chain /\ Handled
  BY <1>2 DEF OnceOnStack, Chain, Handled
<1>6. CallsInlined
  <2>1. built = {}
    BY <1>1 DEF built
  <2> QED BY <1>2, <2>1 DEF CallsInlined
<1>7. QueueOK
  BY <1>1, CrateAssumption DEF QueueOK
<1> QED BY <1>3, <1>4, <1>5, <1>6, <1>7 DEF SInv, IInv

\* Nothing of the construction has changed.
LEMMA IdleIInv ==
    ASSUME IInv, UNCHANGED <<program, construction_vars>>
    PROVE  IInv'
<1>1. Frames /\ Entries /\ OnceOnStack /\ Chain /\ Handled /\ CallsInlined
  BY DEF IInv
<1>2. program' = program /\ entry' = entry /\ pdg' = pdg /\ stack' = stack
  BY DEF construction_vars
<1>3. program \in Programs
  BY <1>1 DEF Frames
<1>4. Frames' /\ Entries' /\ OnceOnStack'
  BY <1>1, <1>2, ProgramKept DEF Frames, FrameOK, Entries, OnceOnStack
<1>5. Chain'
  BY <1>1, <1>2, ChainNext DEF Chain
<1>6. Handled'
  <2>1. \A i \in DOMAIN stack : \A l \in DOMAIN stack[i].handled : Determined(i, l)'
    <3> TAKE i \in DOMAIN stack
    <3> TAKE l \in DOMAIN stack[i].handled
    <3>1. Determined(i, l)
      BY <1>1 DEF Handled
    <3> DEFINE c == code(stack[i].fn)[l]
               w == wanted(stack[i].fn, c)
    <3>2. l \in calls(stack[i].fn) =>
              /\ stack[i].handled[l] = determine_call_handling(stack[i].fn, c)
              /\ w # None => entry[w] = "Some" \/ \E j \in 1 .. i : stack[j].fn = w
      BY <3>1 DEF Determined
    <3> QED BY <1>2, <3>2, DeterminedNext
  <2>2. ASSUME NEW i \in DOMAIN stack
        PROVE  /\ DOMAIN stack[i].handled =
                      IF stack[i].pass = "iterate" THEN 1 .. stack[i].at - 1
                      ELSE DOMAIN code(stack[i].fn)
               /\ stack[i].handled \in Seq({stack[i].handled[l] : l \in DOMAIN stack[i].handled})
    BY <1>1 DEF Handled
  <2> QED BY <1>2, <2>1, <2>2, HandledNext
<1>7. CallsInlined'
  <2>1. ASSUME NEW h, NEW l, NEW k, Inlined(h, l, k) PROVE Inlined(h, l, k)'
    BY <1>2, <2>1, InlinedKept
  <2>2. ASSUME NEW h \in Fn, entry[h] = "Some", NEW l \in calls(h)
        PROVE  Inlined(h, l, pdg[h])
    BY <1>1, <2>2 DEF CallsInlined, built
  <2>3. ASSUME NEW i \in DOMAIN stack, stack[i].pass = "visit",
               NEW l \in calls(stack[i].fn), l < stack[i].at
        PROVE  Inlined(stack[i].fn, l, stack[i].graph)
    BY <1>1, <2>3 DEF CallsInlined
  <2> QED BY <1>2, <2>1, <2>2, <2>3, CallsInlinedNext
<1> QED BY <1>4, <1>5, <1>6, <1>7 DEF IInv

\* A target's body is a function.
LEMMA RootOfTarget ==
    ASSUME program \in Programs, queue \in Seq(Fn), queue # <<>>
    PROVE  root_of(target) \in Fn
<1>1. target \in Fn
  BY DEF target
<1>2. ASSUME NEW t \in program.async \cup program.async_trait PROVE generator(t) \in Fn
  BY ProgramsAssumption DEF generator, code
<1> QED BY <1>1, <1>2 DEF root_of, determine_async

\* What asks for a graph wants the graph of a function.
LEMMA CalleeOfTop ==
    ASSUME IInv, stack # <<>>, asks(top)
    PROVE  /\ ~at_end(top) /\ instruction(top).op = "call"
           /\ wanted(top.fn, instruction(top)) \in Fn
           /\ entry[wanted(top.fn, instruction(top))] = "absent"
<1>1. /\ ~at_end(top) /\ instruction(top).op = "call" /\ wanted(top.fn, instruction(top)) # None
      /\ entry[wanted(top.fn, instruction(top))] = "absent"
  BY DEF asks
<1>2. /\ program \in Programs /\ top.fn \in Fn /\ Len(code(top.fn)) \in Nat
      /\ top.at \in 1 .. Len(code(top.fn)) + 1 /\ DOMAIN code(top.fn) = 1 .. Len(code(top.fn))
  BY TopKnown
<1>3. instruction(top) = code(top.fn)[top.at] /\ ~(top.at > Len(code(top.fn)))
  BY <1>1 DEF instruction, at_end
<1>4. top.at \in calls(top.fn)
  BY <1>1, <1>2, <1>3 DEF calls
<1> QED BY <1>1, <1>2, <1>3, <1>4, WantedFacts

\* One step of the construction.
LEMMA ConstructionIInv == IInv /\ ConstructionStep => IInv'
<1> SUFFICES ASSUME IInv, ConstructionStep PROVE IInv'
  OBVIOUS
<1>1. CASE ConstructCallee
  <2> DEFINE f == wanted(top.fn, instruction(top))
  <2>1. stack # <<>> /\ asks(top) /\ Construct(f)
    BY <1>1 DEF ConstructCallee
  <2>2. f \in Fn /\ entry[f] = "absent" /\ ~at_end(top) /\ instruction(top).op = "call"
    BY <2>1, CalleeOfTop
  <2> HIDE DEF f
  <2>3. wanted(top.fn, instruction(top)) = f
    BY DEF f
  <2> QED BY <2>1, <2>2, <2>3, ConstructIInv
<1> QED BY <1>1, IterateIInv, FixpointIInv, VisitIInv, FinishIInv DEF ConstructionStep

LEMMA SInvStep == SInv /\ [Next]_vars => SInv'
<1> SUFFICES ASSUME SInv, [Next]_vars PROVE SInv'
  OBVIOUS
<1>1. IInv /\ queue \in Seq(Fn) /\ (phase = "types" => queue # <<>>) /\ program \in Programs
  BY DEF SInv, QueueOK, IInv, Frames
<1>2. CASE StartTarget
  <2>1. ConstructRoot(root_of(target)) /\ queue # <<>> /\ UNCHANGED <<queue, phase>>
    BY <1>2 DEF StartTarget, generation
  <2>2. root_of(target) \in Fn
    BY <1>1, <2>1, RootOfTarget
  <2>3. stack = <<>> /\ entry[root_of(target)] = "absent" /\ Construct(root_of(target))
    BY <2>1 DEF ConstructRoot
  <2>4. IInv'
    BY <1>1, <2>2, <2>3, ConstructIInv
  <2> QED BY <1>1, <2>1, <2>4 DEF SInv, QueueOK
<1>3. CASE ConstructStep
  <2>1. ConstructionStep /\ queue' = queue /\ phase' \in {"panicked", phase}
    BY <1>3 DEF ConstructStep, generation
  <2> QED BY <1>1, <2>1, ConstructionIInv DEF SInv, QueueOK
<1>4. CASE Convert
  <2>1. queue # <<>> /\ queue' = queue /\ UNCHANGED <<program, construction_vars>>
    BY <1>4 DEF Convert
  <2> QED BY <1>1, <2>1, IdleIInv DEF SInv, QueueOK
<1>5. CASE TypeStep
  <2>1. UNCHANGED <<program, construction_vars>> /\ UNCHANGED <<queue, phase>>
    BY <1>5 DEF TypeStep, generation
  <2> QED BY <1>1, <2>1, IdleIInv DEF SInv, QueueOK
<1>6. CASE FinishTarget
  <2>1. /\ phase = "types" /\ queue' = Tail(queue) /\ phase' \in {"describe", "construct"}
        /\ UNCHANGED <<program, construction_vars>>
    BY <1>6 DEF FinishTarget
  <2>2. queue' \in Seq(Fn)
    BY <1>1, <2>1
  <2> QED BY <1>1, <2>1, <2>2, IdleIInv DEF SInv, QueueOK
<1>7. CASE Describe
  <2>1. /\ queue' = queue /\ phase' \in {"aborted", "written"}
        /\ UNCHANGED <<program, construction_vars>>
    BY <1>7 DEF Describe
  <2> QED BY <1>1, <2>1, IdleIInv DEF SInv, QueueOK
<1>8. CASE UNCHANGED vars
  <2>1. UNCHANGED <<program, construction_vars>> /\ UNCHANGED <<queue, phase>>
    BY <1>8 DEF vars
  <2> QED BY <1>1, <2>1, IdleIInv DEF SInv, QueueOK
<1> QED BY <1>2, <1>3, <1>4, <1>5, <1>6, <1>7, <1>8 DEF Next, Exit

\* No step changes the program or a graph in the cache.
LEMMA CacheKept ==
    ASSUME SInv, [Next]_vars
    PROVE  /\ program' = program
           /\ \A f \in Fn : /\ entry[f] = "Some" => entry'[f] = "Some" /\ pdg'[f] = pdg[f]
                            /\ entry[f] = "None" => entry'[f] # "absent"
<1> DEFINE Grown ==
        /\ program' = program
        /\ \A f \in Fn : /\ entry[f] = "Some" => entry'[f] = "Some" /\ pdg'[f] = pdg[f]
                         /\ entry[f] = "None" => entry'[f] # "absent"
<1>1. IInv /\ program \in Programs /\ entry \in [Fn -> {"absent", "None", "Some"}] /\ DOMAIN pdg = Fn
  BY DEF SInv, IInv, Frames, Entries
<1>2. ASSUME NEW f, entry[f] = "absent", Construct(f) PROVE Grown
  BY <1>1, <1>2 DEF Construct
<1>3. CASE StartTarget
  BY <1>2, <1>3 DEF StartTarget, ConstructRoot
<1>4. CASE ConstructStep
  <2>1. CASE ConstructCallee
    BY <1>1, <1>2, <2>1, CalleeOfTop DEF ConstructCallee
  <2>2. CASE Iterate \/ Fixpoint \/ Visit
    BY <1>1, <2>2 DEF Iterate, Fixpoint, Visit
  <2>3. CASE Finish
    <3>1. entry[top.fn] = "None" /\ program' = program
      <4>1. stack # <<>> /\ Frames /\ program' = program
        BY <1>1, <2>3 DEF Finish, Busy, IInv
      <4>2. Len(stack) \in DOMAIN stack /\ top = stack[Len(stack)] /\ top.fn \in Fn
        BY <4>1, TopFacts DEF FrameOK
      <4> QED BY <1>1, <4>1, <4>2 DEF IInv, Entries
    <3>2. CASE UNCHANGED <<entry, pdg>>
      BY <1>1, <3>1, <3>2
    <3>3. CASE ~UNCHANGED <<entry, pdg>>
      <4>1. PICK g : /\ pdg' = [pdg EXCEPT ![top.fn] = g]
                     /\ entry' = [entry EXCEPT ![top.fn] = "Some"]
        BY <2>3, <3>3 DEF Finish
      <4> QED BY <1>1, <3>1, <4>1
    <3> QED BY <3>2, <3>3
  <2> QED BY <1>4, <2>1, <2>2, <2>3 DEF ConstructStep, ConstructionStep
<1>5. CASE UNCHANGED <<program, construction_vars>>
  BY <1>5 DEF construction_vars
<1> QED BY <1>3, <1>4, <1>5 DEF Next, Convert, TypeStep, FinishTarget, Describe, Exit, vars

-----------------------------------------------------------------------------
(***************************************************************************)
(* Whether a call is inlined is determined the same each time, with any    *)
(* number of functions, however they call each other and are replaced.     *)
(***************************************************************************)
THEOREM Handling == Spec => []HandlingStable
<1>1. SInv => HandlingStable
  <2> SUFFICES ASSUME SInv, NEW i \in DOMAIN stack, stack[i].pass = "visit",
                      NEW l \in calls(stack[i].fn)
               PROVE  determine_call_handling(stack[i].fn, code(stack[i].fn)[l]) =
                            stack[i].handled[l]
    BY DEF HandlingStable
  <2>1. DOMAIN stack[i].handled = DOMAIN code(stack[i].fn)
    BY DEF SInv, IInv, Handled
  <2>2. l \in DOMAIN stack[i].handled
    BY <2>1 DEF calls
  <2>3. Determined(i, l)
    BY <2>2 DEF SInv, IInv, Handled
  <2> QED BY <2>3 DEF Determined
<1> QED BY <1>1, InitSInv, SInvStep, PTL DEF Spec

(***************************************************************************)
(* A call that does not lead back to its caller is inlined with its whole  *)
(* graph, in whichever order the graphs were built.                        *)
(***************************************************************************)
THEOREM Inlining == Spec => []InlinedUnlessRecursive
<1>1. SInv => InlinedUnlessRecursive
  <2> SUFFICES ASSUME SInv, NEW f \in built, NEW l \in calls(f),
                      wanted(f, code(f)[l]) # None,
                      ~Reaches(Fn, call_graph, wanted(f, code(f)[l]), f)
               PROVE  LET w == wanted(f, code(f)[l])
                          child == push_call_string_root(pdg[w], GlobalLocation(f, l))
                      IN  /\ w \in built
                          /\ nodes_of(child) \subseteq nodes_of(pdg[f])
                          /\ child.edges \subseteq pdg[f].edges
    BY DEF InlinedUnlessRecursive
  <2> DEFINE w == wanted(f, code(f)[l])
             child == push_call_string_root(pdg[w], GlobalLocation(f, l))
  <2>1. Inlined(f, l, pdg[f])
    BY DEF SInv, IInv, CallsInlined
  <2>2. entry[w] = "Some" /\ child.nodes \subseteq pdg[f].nodes /\ child.edges \subseteq pdg[f].edges
    BY <2>1 DEF Inlined
  <2>3. w \in Fn
    BY WantedFacts DEF SInv, IInv, Frames, built
  <2> HIDE DEF w, child
  <2>4. nodes_of(child) \subseteq nodes_of(pdg[f])
    BY <2>2 DEF nodes_of
  <2> QED BY <2>2, <2>3, <2>4 DEF built, w, child
<1> QED BY <1>1, InitSInv, SInvStep, PTL DEF Spec

(***************************************************************************)
(* A graph in the cache is final, and what is being built is not begun     *)
(* again.                                                                  *)
(***************************************************************************)
THEOREM Once == Spec => ConstructedOnce
<1>1. SInv /\ [Next]_vars =>
        [\A f \in Fn : /\ entry[f] = "Some" => entry'[f] = "Some" /\ pdg'[f] = pdg[f]
                       /\ entry[f] = "None" => entry'[f] # "absent"]_construction_vars
  BY CacheKept
<1> QED BY <1>1, InitSInv, SInvStep, PTL DEF Spec, ConstructedOnce

-----------------------------------------------------------------------------
(***************************************************************************)
(* What graphs say of where they are: call strings are real, and places    *)
(* are places of the functions that the call strings end in.               *)
(***************************************************************************)
declared(f) == DOMAIN program.ty[f]
known(f, op) == op = None \/ op.local \in declared(f)

\* The operands of an assignment.
assigned(r) ==
    IF r.kind = "Use" THEN {r.op} ELSE {r.ops[k] : k \in DOMAIN r.ops}

\* The operands that the parameters 1 .. n of a callee stand for.
passed(conv, n) ==
    CASE conv.kind = "Direct" -> {conv.args[k] : k \in 1 .. n}
      [] conv.kind = "Indirect" -> {conv.closure_arg, conv.tupled_arguments}
      [] conv.kind = "Async" -> {conv.generator_data}

\* The places of instruction i have types, and a call passes what the function it runs
\* takes.
InstructionDeclared(f, i) ==
    /\ i.op \in {"assign", "call"}
    /\ i.dest.local \in declared(f)
    /\ i.op = "assign" =>
        /\ \A op \in assigned(i.rvalue) : known(f, op)
        /\ i.rvalue.kind = "Ref" => i.rvalue.place.local \in declared(f)
    /\ i.op = "call" =>
        /\ \A k \in DOMAIN i.args : known(f, i.args[k])
        /\ i.callee \in program.into_future => known(f, i.args[1])
        /\ wanted(f, i) # None =>
            \A op \in passed(calling_convention(f, i), program.argc[wanted(f, i)]) : known(f, op)

PlacesDeclared ==
    \A f \in Fn :
        /\ program.argc[f] \in Nat
        /\ \A l \in declared(f) : program.ty[f][l] \in Ty
        /\ \A l \in DOMAIN code(f) : InstructionDeclared(f, code(f)[l])

StringOK(f, cs) ==
    /\ cs \in Seq(locations(cs)) /\ cs # <<>>
    /\ IsCallString(f, cs)
    /\ functions(cs) \subseteq built \cup {f} /\ IsFiniteSet(functions(cs))

NodeOK(f, n) ==
    /\ n = DepNode(n.place, n.at)
    /\ StringOK(f, n.at)
    /\ PlacesDeclared => n.place.local \in declared(leaf(n.at).function)

EdgeOK(f, e) ==
    /\ e = DepEdge(e.from, e.to, e.at, e.source_use, e.target_use)
    /\ NodeOK(f, e.from) /\ NodeOK(f, e.to) /\ StringOK(f, e.at)

GraphOK(f, g) == (\A n \in g.nodes : NodeOK(f, n)) /\ (\A e \in g.edges : EdgeOK(f, e))

\* The mutations that reach an instruction are at other instructions of its function.
LocalNode(f, n) ==
    /\ n = DepNode(n.place, single(GlobalLocation(f, leaf(n.at).location)))
    /\ PlacesDeclared => n.place.local \in declared(f)

StateOK(f, s) == \A n \in s : LocalNode(f, n)

Graphs ==
    /\ \A f \in built : GraphOK(f, pdg[f])
    /\ \A i \in DOMAIN stack : GraphOK(stack[i].fn, stack[i].graph) /\ StateOK(stack[i].fn, stack[i].state)

-----------------------------------------------------------------------------
(***************************************************************************)
(* Call strings.                                                           *)
(***************************************************************************)
\* An instruction of f, seen from f.
LEMMA SingleString ==
    ASSUME NEW f, NEW l
    PROVE  StringOK(f, single(GlobalLocation(f, l)))
<1> DEFINE loc == GlobalLocation(f, l)
           cs == single(loc)
<1>1. /\ cs = <<loc>> /\ loc.function = f /\ loc.location = l
      /\ DOMAIN cs = {1} /\ cs[1] = loc /\ Len(cs) = 1
  BY DEF single, GlobalLocation
<1>2. functions(cs) = {f} /\ locations(cs) = {loc} /\ root(cs) = loc
  BY <1>1 DEF functions, locations, root
<1>3. IsFiniteSet({f}) /\ Cardinality({f}) = 1
  BY FS_Singleton
<1>4. cs \in Seq({loc}) /\ cs # <<>>
  BY <1>1
<1> HIDE DEF loc, cs
<1>5. IsCallString(f, cs)
  BY <1>1, <1>2, <1>3 DEF IsCallString
<1> QED BY <1>2, <1>3, <1>4, <1>5 DEF StringOK, cs, loc

\* A call string of the callee's graph, seen from the caller.
LEMMA PushedString ==
    ASSUME NEW f, f \notin built, NEW l \in calls(f), NEW cs,
           wanted(f, code(f)[l]) \in built, StringOK(wanted(f, code(f)[l]), cs)
    PROVE  /\ StringOK(f, push_front(cs, GlobalLocation(f, l)))
           /\ leaf(push_front(cs, GlobalLocation(f, l))) = leaf(cs)
<1> DEFINE w == wanted(f, code(f)[l])
           loc == GlobalLocation(f, l)
           ds == push_front(cs, loc)
           n == Len(cs)
<1> HIDE DEF w
<1>1. /\ w \in built /\ cs \in Seq(locations(cs)) /\ cs # <<>>
      /\ IsCallString(w, cs) /\ functions(cs) \subseteq built \cup {w}
      /\ IsFiniteSet(functions(cs))
  BY DEF StringOK, w
<1>2. n \in Nat /\ n # 0 /\ DOMAIN cs = 1 .. n
  BY <1>1
<1>3. loc.function = f /\ loc.location = l
  BY DEF GlobalLocation
<1> HIDE DEF loc
<1>4. /\ ds = <<loc>> \o cs /\ <<loc>> \in Seq({loc} \cup locations(cs))
      /\ cs \in Seq({loc} \cup locations(cs))
  <2>1. cs \in Seq({loc} \cup locations(cs))
    BY <1>1, <1>2
  <2> QED BY <2>1 DEF push_front
<1>5. /\ Len(ds) = n + 1 /\ DOMAIN ds = 1 .. n + 1 /\ ds[1] = loc
      /\ \A i \in 2 .. n + 1 : ds[i] = cs[i - 1]
      /\ ds \in Seq({loc} \cup locations(cs)) /\ ds # <<>>
  BY <1>2, <1>4
<1> HIDE DEF ds
<1>6. \A i \in 1 .. n : ds[i + 1] = cs[i]
  BY <1>2, <1>5
<1>7. functions(ds) = functions(cs) \cup {f} /\ locations(ds) = {loc} \cup locations(cs)
  <2>1. \A i \in DOMAIN cs : i + 1 \in DOMAIN ds /\ ds[i + 1] = cs[i]
    BY <1>2, <1>5, <1>6
  <2>2. \A i \in DOMAIN ds : i = 1 \/ (i - 1 \in DOMAIN cs /\ ds[i] = cs[i - 1])
    BY <1>2, <1>5
  <2>3. 1 \in DOMAIN ds
    BY <1>2, <1>5
  <2> QED BY <1>3, <1>5, <2>1, <2>2, <2>3 DEF functions, locations
<1>8. f \notin functions(cs)
  BY <1>1
<1>9. IsFiniteSet(functions(ds)) /\ Cardinality(functions(ds)) = n + 1
  <2>1. Cardinality(functions(cs)) = n
    BY <1>1 DEF IsCallString
  <2>2. /\ IsFiniteSet(functions(cs) \cup {f})
        /\ Cardinality(functions(cs) \cup {f}) = Cardinality(functions(cs)) + 1
    BY <1>1, <1>8, FS_AddElement
  <2> QED BY <1>7, <2>1, <2>2
<1>10. IsCallString(f, ds)
  <2>1. root(ds).function = f
    BY <1>3, <1>5 DEF root
  <2>2. cs[1].function = w
    BY <1>1 DEF IsCallString, root
  <2>3. ASSUME NEW i \in 1 .. n
        PROVE  /\ ds[i].location \in calls(ds[i].function)
               /\ wanted(ds[i].function, code(ds[i].function)[ds[i].location]) = ds[i + 1].function
    <3>1. CASE i = 1
      BY <1>3, <1>5, <1>6, <2>2, <3>1 DEF w
    <3>2. CASE i # 1
      <4>1. i - 1 \in 1 .. Len(cs) - 1 /\ ds[i] = cs[i - 1] /\ ds[i + 1] = cs[i]
        BY <1>2, <1>5, <1>6, <3>2
      <4>2. /\ cs[i - 1].location \in calls(cs[i - 1].function)
            /\ wanted(cs[i - 1].function, code(cs[i - 1].function)[cs[i - 1].location])
                 = cs[(i - 1) + 1].function
        BY <1>1, <4>1 DEF IsCallString
      <4>3. (i - 1) + 1 = i
        OBVIOUS
      <4> QED BY <4>1, <4>2, <4>3
    <3> QED BY <3>1, <3>2
  <2>4. 1 .. Len(ds) - 1 = 1 .. n
    BY <1>2, <1>5
  <2> QED BY <1>5, <1>9, <2>1, <2>3, <2>4 DEF IsCallString
<1>11. ds \in Seq(locations(ds)) /\ functions(ds) \subseteq built \cup {f}
  BY <1>1, <1>5, <1>7
<1>12. leaf(ds) = leaf(cs)
  BY <1>2, <1>5, <1>6 DEF leaf
<1>13. StringOK(f, ds)
  BY <1>5, <1>9, <1>10, <1>11 DEF StringOK
<1> QED BY <1>12, <1>13 DEF ds, loc

-----------------------------------------------------------------------------
(***************************************************************************)
(* Nodes and edges of one instruction.                                     *)
(***************************************************************************)
LEMMA NodeHere ==
    ASSUME NEW f, NEW n, LocalNode(f, n)
    PROVE  NodeOK(f, n)
<1> DEFINE l == leaf(n.at).location
<1>1. /\ n = DepNode(n.place, single(GlobalLocation(f, l)))
      /\ PlacesDeclared => n.place.local \in declared(f)
  BY DEF LocalNode
<1> HIDE DEF l
<1>2. n.at = single(GlobalLocation(f, l))
  BY <1>1 DEF DepNode
<1>3. StringOK(f, n.at)
  BY <1>2, SingleString
<1>4. leaf(n.at).function = f
  BY <1>2 DEF leaf, single, GlobalLocation
<1> QED BY <1>1, <1>2, <1>3, <1>4 DEF NodeOK

\* A node of a declared place at an instruction.
LEMMA NodeAt ==
    ASSUME NEW f, NEW l, NEW p, PlacesDeclared => p.local \in declared(f)
    PROVE  LocalNode(f, DepNode(p, single(GlobalLocation(f, l))))
<1> DEFINE n == DepNode(p, single(GlobalLocation(f, l)))
<1>1. n.place = p /\ n = DepNode(n.place, single(GlobalLocation(f, l)))
  BY DEF DepNode
<1>2. leaf(n.at).location = l
  BY DEF DepNode, leaf, single, GlobalLocation
<1> QED BY <1>1, <1>2 DEF LocalNode

LEMMA DeclaredFacts ==
    ASSUME PlacesDeclared, NEW f \in Fn, NEW l \in DOMAIN code(f)
    PROVE  /\ program.argc[f] \in Nat
           /\ InstructionDeclared(f, code(f)[l])
  BY DEF PlacesDeclared

\* What stands for a place is a place of the body.
LEMMA AliasesDeclared ==
    ASSUME PlacesDeclared, NEW f \in Fn, NEW p, p.local \in declared(f),
           NEW q \in aliases(code(f), p)
    PROVE  q.local \in declared(f)
<1>1. CASE q = p
  BY <1>1
<1>2. ASSUME NEW r \in borrows(code(f), p.local), NEW rest, q = project_deeper(r, rest)
      PROVE  q.local \in declared(f)
  <2>1. PICK i \in assignments(code(f), p.local) :
            is_assign(code(f)[i], "Ref") /\ r = code(f)[i].rvalue.place
    BY DEF borrows
  <2>2. i \in DOMAIN code(f)
    BY <2>1 DEF assignments
  <2>3. InstructionDeclared(f, code(f)[i])
    BY <2>2, DeclaredFacts
  <2>4. code(f)[i].op = "assign" /\ code(f)[i].rvalue.kind = "Ref"
    BY <2>1 DEF is_assign
  <2>5. r.local \in declared(f)
    BY <2>1, <2>3, <2>4 DEF InstructionDeclared
  <2> QED BY <1>2, <2>5 DEF project_deeper, Place
<1>3. \/ q = p \/ \E r \in borrows(code(f), p.local) : q = project_deeper(r, Tail(p.projection))
  BY DEF aliases
<1> QED BY <1>1, <1>2, <1>3

\* find_data_inputs and find_outputs find nodes of the function itself.
LEMMA InputsOK ==
    ASSUME NEW f \in Fn, NEW s, StateOK(f, s), NEW p, PlacesDeclared => p.local \in declared(f),
           NEW n \in find_data_inputs(f, s, p)
    PROVE  LocalNode(f, n)
<1>1. PICK q \in {p} \cup refs_in_projection(p) : \E a \in aliases(code(f), q) :
         \/ n \in s
         \/ n = DepNode(a, single(GlobalLocation(f, Start)))
  BY DEF find_data_inputs
<1>2. PICK a \in aliases(code(f), q) :
         n \in s \/ n = DepNode(a, single(GlobalLocation(f, Start)))
  BY <1>1
<1>3. q.local = p.local
  BY DEF refs_in_projection, Place
<1>4. PlacesDeclared => a.local \in declared(f)
  BY <1>3, AliasesDeclared
<1>5. CASE n \in s
  BY <1>5 DEF StateOK
<1>6. CASE n = DepNode(a, single(GlobalLocation(f, Start)))
  BY <1>4, <1>6, NodeAt
<1> QED BY <1>2, <1>5, <1>6

LEMMA OutputsOK ==
    ASSUME NEW f \in Fn, NEW l, NEW p, PlacesDeclared => p.local \in declared(f),
           NEW n \in find_outputs(f, p, single(GlobalLocation(f, l)))
    PROVE  LocalNode(f, n)
<1>1. PICK q \in aliases(code(f), p) : n = DepNode(q, single(GlobalLocation(f, l)))
  BY DEF find_outputs
<1> QED BY <1>1, AliasesDeclared, NodeAt

\* Mutations of places of f, from places of f.
Within(D, ms) == \A m \in ms : m.mutated.local \in D /\ \A i \in m.inputs : i[1].local \in D

MutationsOK(f, ms) == PlacesDeclared => Within(declared(f), ms)

LEMMA RegisteredOK ==
    ASSUME NEW f \in Fn, NEW s, StateOK(f, s), NEW ms, MutationsOK(f, ms), NEW l
    PROVE  GraphOK(f, register_mutation(f, s, ms, single(GlobalLocation(f, l))))
<1> DEFINE at == single(GlobalLocation(f, l))
           g == register_mutation(f, s, ms, at)
<1>1. ASSUME NEW n \in g.nodes PROVE NodeOK(f, n)
  <2>1. PICK m \in ms : n \in find_outputs(f, m.mutated, at)
    BY DEF register_mutation
  <2> QED BY <2>1, OutputsOK, NodeHere DEF MutationsOK, Within
<1>2. ASSUME NEW e \in g.edges PROVE EdgeOK(f, e)
  <2>1. PICK m \in ms : e \in data_edges(f, s, m, at)
    BY DEF register_mutation
  <2>2. PICK i \in m.inputs : \E n \in find_data_inputs(f, s, i[1]), o \in find_outputs(f, m.mutated, at) :
            e = DepEdge(n, o, at, i[2], m.reason)
    BY <2>1 DEF data_edges
  <2>3. PICK n \in find_data_inputs(f, s, i[1]), o \in find_outputs(f, m.mutated, at) :
            e = DepEdge(n, o, at, i[2], m.reason)
    BY <2>2
  <2>4. LocalNode(f, n)
    BY InputsOK DEF MutationsOK, Within
  <2>5. LocalNode(f, o)
    BY OutputsOK DEF MutationsOK, Within
  <2>6. StringOK(f, at)
    BY SingleString
  <2> HIDE DEF at
  <2> QED BY <2>3, <2>4, <2>5, <2>6, NodeHere DEF EdgeOK, DepEdge
<1> QED BY <1>1, <1>2 DEF GraphOK

LEMMA MovedWithin ==
    ASSUME NEW f, NEW to, to.local \in declared(f), NEW op, known(f, op), NEW n
    PROVE  Within(declared(f), moved(to, op, n))
<1>1. \A p, s : project_deeper(p, s).local = p.local
  BY DEF project_deeper, Place
<1>2. ASSUME NEW q, NEW p, q.local \in declared(f), p # None => p.local \in declared(f)
      PROVE  Within(declared(f), {Mutation(q, operands({p} \ {None}), Assign)})
  <2>1. \A i \in operands({p} \ {None}) : i[1] = p /\ p # None
    BY DEF operands
  <2> QED BY <1>2, <2>1 DEF Within, Mutation
<1>3. CASE op = None \/ n = 0
  BY <1>2, <1>3 DEF moved, known
<1>4. CASE ~(op = None \/ n = 0)
  <2>1. ASSUME NEW m \in moved(to, op, n)
        PROVE  m.mutated.local \in declared(f) /\ \A i \in m.inputs : i[1].local \in declared(f)
    <3>1. PICK k : m = Mutation(project_deeper(to, <<Field(k)>>),
                                operands({project_deeper(op, <<Field(k)>>)}), Assign)
      BY <1>4 DEF moved
    <3>2. \A i \in m.inputs : i[1] = project_deeper(op, <<Field(k)>>)
      BY <3>1 DEF Mutation, operands
    <3>3. m.mutated = project_deeper(to, <<Field(k)>>)
      BY <3>1 DEF Mutation
    <3> QED BY <1>1, <1>4, <3>2, <3>3 DEF known
  <2> QED BY <2>1 DEF Within
<1> QED BY <1>3, <1>4

LEMMA AssignWithin ==
    ASSUME NEW f, NEW to, to.local \in declared(f), NEW r, \A op \in assigned(r) : known(f, op)
    PROVE  Within(declared(f), visit_assign(to, r))
<1>1. CASE r.kind = "Use"
  <2>1. known(f, r.op)
    BY <1>1 DEF assigned
  <2>2. visit_assign(to, r) = moved(to, r.op, r.fields)
    BY <1>1 DEF visit_assign
  <2> QED BY <2>1, <2>2, MovedWithin
<1>2. CASE r.kind # "Use"
  <2>1. \A k \in DOMAIN r.ops : known(f, r.ops[k])
    BY <1>2 DEF assigned
  <2>2. CASE r.kind = "Aggregate" /\ r.ops # <<>>
    <3>1. ASSUME NEW k \in DOMAIN r.ops, NEW rest
          PROVE  Within(declared(f), moved(project_deeper(to, rest), r.ops[k], r.fields[k]))
      BY <2>1, MovedWithin DEF project_deeper, Place
    <3>2. visit_assign(to, r) =
            UNION {moved(project_deeper(to, r.variant \o <<Field(k - 1)>>), r.ops[k], r.fields[k]) :
                    k \in DOMAIN r.ops}
      BY <1>2, <2>2 DEF visit_assign
    <3> QED BY <3>1, <3>2 DEF Within
  <2>3. CASE ~(r.kind = "Aggregate" /\ r.ops # <<>>)
    <3>1. visit_assign(to, r) = {Mutation(to, operands(places(r.ops)), Assign)}
      BY <1>2, <2>3 DEF visit_assign
    <3>2. \A i \in operands(places(r.ops)) : i[1].local \in declared(f)
      BY <2>1 DEF operands, places, known
    <3> QED BY <3>1, <3>2 DEF Within, Mutation
  <2> QED BY <2>2, <2>3
<1> QED BY <1>1, <1>2

\* A call that is neither inlined nor approximated by its signature is an assignment.
LEMMA ApproximationKnown ==
    ASSUME NEW f, NEW c, c.op = "call", InstructionDeclared(f, c),
           determine_call_handling(f, c) \notin {"Ready", "None"}
    PROVE  \A op \in assigned(approximation(f, c)) : known(f, op)
<1>1. \A k \in DOMAIN c.args : known(f, c.args[k])
  BY DEF InstructionDeclared
<1>2. CASE determine_call_handling(f, c) = "ApproxAsyncFn" \/ c.callee \in program.new_unchecked
  <2>1. approximation(f, c).kind = "Aggregate" /\ approximation(f, c).ops = c.args
    BY <1>2 DEF approximation, Tuple, approximate_new_unchecked
  <2> QED BY <1>1, <2>1 DEF assigned
<1>3. CASE ~(determine_call_handling(f, c) = "ApproxAsyncFn" \/ c.callee \in program.new_unchecked)
  <2>1. c.callee \in program.into_future
    BY <1>3 DEF determine_call_handling, approximated
  <2>2. approximation(f, c).kind = "Use" /\ approximation(f, c).op = c.args[1]
    BY <1>3 DEF approximation, approximate_into_future
  <2>3. known(f, c.args[1])
    BY <2>1 DEF InstructionDeclared
  <2> QED BY <2>2, <2>3 DEF assigned
<1> QED BY <1>2, <1>3

LEMMA CombineWithin ==
    ASSUME NEW f, NEW args, \A k \in DOMAIN args : known(f, args[k]),
           NEW to, to.local \in declared(f)
    PROVE  /\ Within(declared(f), combine_before(args))
           /\ Within(declared(f), combine_after(args, to))
<1>1. \A p \in places(args) : p.local \in declared(f)
  BY DEF places, known
<1>2. Within(declared(f), combine_before(args))
  <2>1. ASSUME NEW m \in combine_before(args)
        PROVE  m.mutated.local \in declared(f) /\ \A i \in m.inputs : i[1].local \in declared(f)
    <3>1. PICK a \in places(args) : m = Mutation(a, operands({a}), Assign)
      BY DEF combine_before
    <3> QED BY <1>1, <3>1 DEF Mutation, operands
  <2> QED BY <2>1 DEF Within
<1>3. Within(declared(f), combine_after(args, to))
  <2> DEFINE ins == {<<args[i], Argument(i - 1)>> : i \in {i \in DOMAIN args : args[i] # None}}
  <2>1. \A i \in ins : i[1].local \in declared(f)
    BY DEF known
  <2> HIDE DEF ins
  <2>2. combine_after(args, to) = {Mutation(to, ins, Return)}
    BY DEF combine_after, ins
  <2> QED BY <2>1, <2>2 DEF Within, Mutation
<1> QED BY <1>2, <1>3

\* What a place of a callee is for the caller.
LEMMA ConventionKind ==
    ASSUME NEW f, NEW c
    PROVE  calling_convention(f, c).kind \in {"Direct", "Indirect", "Async"}
<1> DEFINE k == classify_call_kind(f, c)
<1>1. k.kind \in {"Direct", "Indirect", "AsyncPoll"}
  BY DEF classify_call_kind, find_async_args, PollEnv
<1> HIDE DEF k
<1>2. from_call_kind(k, c.args).kind \in {"Direct", "Indirect", "Async"}
  BY <1>1 DEF from_call_kind, Direct, Indirect, Async
<1>3. \/ calling_convention(f, c) = from_call_kind(k, c.args)
      \/ calling_convention(f, c) = Indirect(FALSE, c.args[1], c.args[1])
      \/ calling_convention(f, c) = Direct(c.args)
  BY DEF calling_convention, k
<1> QED BY <1>2, <1>3 DEF Direct, Indirect

LEMMA TranslatedDeclared ==
    ASSUME PlacesDeclared, NEW f \in Fn, NEW l \in calls(f),
           NEW w \in Fn, w = wanted(f, code(f)[l]), w # None,
           NEW child, child.local \in 0 .. program.argc[w],
           NEW p \in translated(f, code(f)[l], child)
    PROVE  p.local \in declared(f)
<1> DEFINE c == code(f)[l]
           conv == calling_convention(f, c)
           n == program.argc[w]
<1>1. InstructionDeclared(f, c) /\ n \in Nat /\ c.op = "call"
  BY DEF calls, PlacesDeclared
<1>2. c.dest.local \in declared(f) /\ \A op \in passed(conv, n) : known(f, op)
  BY <1>1 DEF InstructionDeclared
<1>3. conv.kind \in {"Direct", "Indirect", "Async"}
  BY ConventionKind
<1>4. PICK t \in handle_translate(conv, c.dest, child) :
          p = project_deeper(t.base, t.projection) \/ p = t.base
  BY DEF translated, translate_to_parent
<1> HIDE DEF conv, c, n
<1>5. \A q, s : project_deeper(q, s).local = q.local
  BY DEF project_deeper, Place
<1>6. ASSUME NEW op, known(f, op), NEW more, NEW rest, t \in OfOperand(op, more, rest)
      PROVE  t.base.local \in declared(f)
  BY <1>5, <1>6 DEF OfOperand, Translation, known
<1>7. t.base.local \in declared(f)
  <2>1. CASE child.local = RETURN_PLACE
    <3>1. child.local = 0
      BY <2>1 DEF RETURN_PLACE
    <3>2. \E q \in {c.dest, project_deeper(c.dest, poll_ready)} :
            handle_translate(conv, c.dest, child) = {Translation(q, child.projection)}
      BY <1>3, <3>1 DEF handle_translate, RETURN_PLACE
    <3> QED BY <1>2, <1>4, <1>5, <3>2 DEF Translation
  <2>2. CASE child.local # RETURN_PLACE
    <3>1. child.local \in 1 .. n
      BY <1>1, <2>2 DEF RETURN_PLACE, n
    <3>2. CASE conv.kind = "Direct"
      <4>1. handle_translate(conv, c.dest, child) =
                OfOperand(conv.args[child.local], <<>>, child.projection)
        BY <2>2, <3>2 DEF handle_translate
      <4>2. known(f, conv.args[child.local])
        BY <1>2, <3>1, <3>2 DEF passed
      <4> QED BY <1>4, <1>6, <4>1, <4>2
    <3>3. CASE conv.kind = "Async"
      <4>1. child.local = 1
        <5>1. child.local = 1 \/ child.local > 1
          BY <1>1, <3>1 DEF n
        <5>2. child.local > 1 => handle_translate(conv, c.dest, child) = {}
          BY <2>2, <3>3 DEF handle_translate
        <5> QED BY <1>4, <5>1, <5>2
      <4>2. handle_translate(conv, c.dest, child) =
                OfOperand(conv.generator_data, <<>>, child.projection)
        BY <2>2, <3>3, <4>1 DEF handle_translate
      <4>3. known(f, conv.generator_data)
        BY <1>2, <3>3 DEF passed
      <4> QED BY <1>4, <1>6, <4>2, <4>3
    <3>4. CASE conv.kind = "Indirect"
      <4>1. known(f, conv.closure_arg) /\ known(f, conv.tupled_arguments)
        BY <1>2, <3>4 DEF passed
      <4>2. CASE child.local = 1
        <5>1. handle_translate(conv, c.dest, child) =
                IF conv.once_shim
                THEN IF child.projection = <<>> THEN {}
                     ELSE OfOperand(conv.closure_arg, <<>>, Tail(child.projection))
                ELSE OfOperand(conv.closure_arg, <<>>, child.projection)
          BY <2>2, <3>4, <4>2 DEF handle_translate
        <5> QED BY <1>4, <1>6, <4>1, <5>1
      <4>3. CASE child.local > 1
        <5>1. handle_translate(conv, c.dest, child) =
                OfOperand(conv.tupled_arguments, <<tupled(child.local)>>, child.projection)
          BY <2>2, <3>4, <4>3 DEF handle_translate
        <5> QED BY <1>4, <1>6, <4>1, <5>1
      <4> QED BY <1>1, <3>1, <4>2, <4>3 DEF n
    <3> QED BY <1>3, <3>2, <3>3, <3>4
  <2> QED BY <2>1, <2>2
<1> QED BY <1>4, <1>5, <1>7

\* A node or an edge of the callee's graph, seen from the caller.
LEMMA PushedNode ==
    ASSUME NEW f, f \notin built, NEW l \in calls(f), wanted(f, code(f)[l]) \in built,
           NEW n, NodeOK(wanted(f, code(f)[l]), n)
    PROVE  NodeOK(f, push_node(n, GlobalLocation(f, l)))
<1> DEFINE ds == push_front(n.at, GlobalLocation(f, l))
           p == push_node(n, GlobalLocation(f, l))
<1>1. n = [place |-> n.place, at |-> n.at]
  BY DEF NodeOK, DepNode
<1>2. p = [place |-> n.place, at |-> ds]
  BY <1>1 DEF push_node
<1>3. StringOK(f, ds) /\ leaf(ds) = leaf(n.at)
  BY PushedString DEF NodeOK
<1> HIDE DEF ds, p
<1>4. p.place = n.place /\ p.at = ds /\ p = DepNode(p.place, p.at)
  BY <1>2 DEF DepNode
<1>5. NodeOK(f, p)
  BY <1>3, <1>4 DEF NodeOK
<1> QED BY <1>5 DEF p

LEMMA PushedGraph ==
    ASSUME NEW f, f \notin built, NEW l \in calls(f), wanted(f, code(f)[l]) \in built,
           NEW g, GraphOK(wanted(f, code(f)[l]), g)
    PROVE  GraphOK(f, push_call_string_root(g, GlobalLocation(f, l)))
<1> DEFINE w == wanted(f, code(f)[l])
           loc == GlobalLocation(f, l)
           h == push_call_string_root(g, loc)
<1>1. h.nodes = {push_node(n, loc) : n \in g.nodes}
  BY DEF push_call_string_root
<1>2. h.edges = {[e EXCEPT !.from = push_node(@, loc), !.to = push_node(@, loc),
                           !.at = push_front(@, loc)] : e \in g.edges}
  BY DEF push_call_string_root
<1>3. ASSUME NEW e, EdgeOK(w, e),
             NEW d, d = [e EXCEPT !.from = push_node(@, loc), !.to = push_node(@, loc),
                                  !.at = push_front(@, loc)]
      PROVE  EdgeOK(f, d)
  <2>1. /\ e = [from |-> e.from, to |-> e.to, at |-> e.at,
                source_use |-> e.source_use, target_use |-> e.target_use]
        /\ NodeOK(w, e.from) /\ NodeOK(w, e.to) /\ StringOK(w, e.at)
    BY <1>3 DEF EdgeOK, DepEdge
  <2>2. d = [from |-> push_node(e.from, loc), to |-> push_node(e.to, loc),
             at |-> push_front(e.at, loc),
             source_use |-> e.source_use, target_use |-> e.target_use]
    BY <1>3, <2>1
  <2>3. /\ NodeOK(f, push_node(e.from, loc)) /\ NodeOK(f, push_node(e.to, loc))
        /\ StringOK(f, push_front(e.at, loc))
    BY <2>1, PushedNode, PushedString
  <2> HIDE DEF loc
  <2> QED BY <2>2, <2>3 DEF EdgeOK, DepEdge
<1> HIDE DEF h
<1>4. ASSUME NEW n \in g.nodes PROVE NodeOK(f, push_node(n, loc))
  BY PushedNode DEF GraphOK
<1>5. ASSUME NEW e \in g.edges PROVE EdgeOK(w, e)
  BY DEF GraphOK
<1>6. GraphOK(f, h)
  BY <1>1, <1>2, <1>3, <1>4, <1>5 DEF GraphOK
<1> QED BY <1>6 DEF h

\* What a caller has places for is a node of the callee's graph.
LEMMA ParentableOK ==
    ASSUME NEW w, GraphOK(w, pdg[w]), NEW n \in parentable_srcs(w) \cup parentable_dsts(w)
    PROVE  NodeOK(w, n) /\ n.place.local \in 0 .. program.argc[w]
<1>1. n.place.local \in 0 .. program.argc[w]
  BY DEF parentable_srcs, parentable_dsts, parentable
<1>2. \E e \in pdg[w].edges : n = e.from \/ n = e.to
  BY DEF parentable_srcs, parentable_dsts
<1> QED BY <1>1, <1>2 DEF GraphOK, EdgeOK

LEMMA InlineOK ==
    ASSUME NEW f \in Fn, f \notin built, NEW l \in calls(f),
           wanted(f, code(f)[l]) \in built, GraphOK(wanted(f, code(f)[l]), pdg[wanted(f, code(f)[l])]),
           NEW s, StateOK(f, s)
    PROVE  GraphOK(f, handle_as_inline(f, code(f)[l], s, single(GlobalLocation(f, l))))
<1> DEFINE c == code(f)[l]
           w == wanted(f, c)
           loc == GlobalLocation(f, l)
           at == single(loc)
           child == push_call_string_root(pdg[w], loc)
           into == UNION {UNION {{d} \X find_data_inputs(f, s, p) : p \in translated(f, c, d.place)} :
                            d \in parentable_srcs(w)}
           out == UNION {{d[1]} \X find_outputs(f, d[2], at) : d \in mutated_by(f, c)}
           g == handle_as_inline(f, c, s, at)
<1>1. leaf(at) = loc
  BY DEF leaf, single
<1>2. /\ g.nodes = child.nodes \cup {d[2] : d \in out}
            \cup {push_node(d, loc) : d \in {d \in parentable_srcs(w) : translated(f, c, d.place) # {}}}
      /\ g.edges = child.edges
            \cup {DepEdge(d[2], push_node(d[1], loc), at, Operand, Assign) : d \in into}
            \cup {DepEdge(push_node(d[1], loc), d[2], at, Operand, returned_as(d[1].place)) : d \in out}
  BY <1>1 DEF handle_as_inline
<1>3. GraphOK(f, child)
  BY PushedGraph
<1>4. w \in Fn /\ w # None
  BY NoneAssumption DEF built
<1>5. ASSUME NEW n \in parentable_srcs(w) \cup parentable_dsts(w)
      PROVE  NodeOK(f, push_node(n, loc))
  BY ParentableOK, PushedNode
<1>6. ASSUME NEW n \in parentable_srcs(w) \cup parentable_dsts(w), NEW p \in translated(f, c, n.place)
      PROVE  PlacesDeclared => p.local \in declared(f)
  BY <1>4, ParentableOK, TranslatedDeclared
<1>7. ASSUME NEW d \in into PROVE d[1] \in parentable_srcs(w) /\ LocalNode(f, d[2])
  <2>1. PICK n \in parentable_srcs(w) : \E p \in translated(f, c, n.place) :
            d \in {n} \X find_data_inputs(f, s, p)
    BY <1>7
  <2>2. PICK p \in translated(f, c, n.place) : d \in {n} \X find_data_inputs(f, s, p)
    BY <2>1
  <2>3. d[1] = n /\ d[2] \in find_data_inputs(f, s, p)
    BY <2>2
  <2>4. PlacesDeclared => p.local \in declared(f)
    BY <1>6
  <2>5. LocalNode(f, d[2])
    BY <2>3, <2>4, InputsOK
  <2> QED BY <2>3, <2>5
<1>8. ASSUME NEW d \in out PROVE d[1] \in parentable_dsts(w) /\ LocalNode(f, d[2])
  <2>1. PICK b \in mutated_by(f, c) : d \in {b[1]} \X find_outputs(f, b[2], at)
    BY <1>8
  <2>2. PICK n \in parentable_dsts(w) : b \in {n} \X translated(f, c, n.place)
    BY <2>1 DEF mutated_by
  <2>3. b[1] = n /\ b[2] \in translated(f, c, n.place) /\ d[1] = n /\ d[2] \in find_outputs(f, b[2], at)
    BY <2>1, <2>2
  <2>4. PlacesDeclared => b[2].local \in declared(f)
    BY <1>6, <2>3
  <2>5. LocalNode(f, d[2])
    BY <2>3, <2>4, OutputsOK
  <2> QED BY <2>3, <2>5
<1>9. StringOK(f, at)
  BY SingleString
<1> HIDE DEF w, at, loc, child, into, out, g
<1>10. ASSUME NEW n \in g.nodes PROVE NodeOK(f, n)
  <2>1. CASE n \in child.nodes
    BY <1>3, <2>1 DEF GraphOK
  <2>2. CASE \E d \in out : n = d[2]
    BY <1>8, <2>2, NodeHere
  <2>3. CASE \E d \in parentable_srcs(w) : n = push_node(d, loc)
    BY <1>5, <2>3
  <2> QED BY <1>2, <2>1, <2>2, <2>3
<1>11. ASSUME NEW e \in g.edges PROVE EdgeOK(f, e)
  <2>1. ASSUME NEW a, NEW b, NodeOK(f, a), NodeOK(f, b), NEW su, NEW tu,
               e = DepEdge(a, b, at, su, tu)
        PROVE  EdgeOK(f, e)
    BY <1>9, <2>1 DEF EdgeOK, DepEdge
  <2>2. CASE e \in child.edges
    BY <1>3, <2>2 DEF GraphOK
  <2>3. CASE \E d \in into : e = DepEdge(d[2], push_node(d[1], loc), at, Operand, Assign)
    BY <1>5, <1>7, <2>1, <2>3, NodeHere
  <2>4. CASE \E d \in out :
                e = DepEdge(push_node(d[1], loc), d[2], at, Operand, returned_as(d[1].place))
    BY <1>5, <1>8, <2>1, <2>4, NodeHere
  <2> QED BY <1>2, <2>2, <2>3, <2>4
<1>12. GraphOK(f, g)
  BY <1>10, <1>11 DEF GraphOK
<1> QED BY <1>12 DEF g, at, loc

-----------------------------------------------------------------------------
(***************************************************************************)
(* What one instruction does to a state and a graph.                       *)
(***************************************************************************)
\* A call is inlined if the wanted graph is there.
LEMMA ReadyFacts ==
    ASSUME program \in Programs, NEW f \in Fn, NEW l \in calls(f),
           determine_call_handling(f, code(f)[l]) = "Ready"
    PROVE  wanted(f, code(f)[l]) # None /\ wanted(f, code(f)[l]) \in built
<1> DEFINE w == wanted(f, code(f)[l])
<1>1. w # None /\ entry[w] = "Some"
  <2> HIDE DEF w
  <2>1. w = wanted(f, code(f)[l])
    BY DEF w
  <2> QED BY <2>1 DEF determine_call_handling
<1>2. w \in Fn
  BY <1>1, WantedFacts
<1> QED BY <1>1, <1>2 DEF built

\* Nothing but places of the function is mutated.
LEMMA EffectDeclared ==
    ASSUME program \in Programs, PlacesDeclared, NEW f \in Fn, NEW l \in DOMAIN code(f),
           \A w \in built : GraphOK(w, pdg[w]),
           NEW p \in effect(f, code(f)[l])
    PROVE  p.local \in declared(f)
<1> DEFINE i == code(f)[l]
<1>1. InstructionDeclared(f, i)
  BY DeclaredFacts
<1>2. i.op \in {"assign", "call"} /\ i.dest.local \in declared(f)
  BY <1>1 DEF InstructionDeclared
<1>3. CASE i.op = "assign"
  <2>1. \A op \in assigned(i.rvalue) : known(f, op)
    BY <1>1, <1>3 DEF InstructionDeclared
  <2>2. Within(declared(f), visit_assign(i.dest, i.rvalue))
    BY <1>2, <2>1, AssignWithin
  <2>3. effect(f, i) = {m.mutated : m \in visit_assign(i.dest, i.rvalue)}
    BY <1>3 DEF effect
  <2> QED BY <2>2, <2>3 DEF Within
<1>4. CASE i.op = "call" /\ determine_call_handling(f, i) = "Ready"
  <2> DEFINE w == wanted(f, i)
  <2>1. l \in calls(f)
    BY <1>4 DEF calls
  <2>2. w # None /\ w \in built /\ w \in Fn
    BY <1>4, <2>1, ReadyFacts DEF built
  <2>3. effect(f, i) = {d[2] : d \in mutated_by(f, i)}
    BY <1>4 DEF effect
  <2>4. PICK d \in mutated_by(f, i) : p = d[2]
    BY <2>3
  <2>5. PICK n \in parentable_dsts(w) : d \in {n} \X translated(f, i, n.place)
    BY <2>4 DEF mutated_by
  <2>6. p \in translated(f, i, n.place)
    BY <2>4, <2>5
  <2>7. GraphOK(w, pdg[w])
    BY <2>2
  <2>8. n.place.local \in 0 .. program.argc[w]
    BY <2>7, ParentableOK
  <2> HIDE DEF w
  <2>9. w = wanted(f, i)
    BY DEF w
  <2> QED BY <2>1, <2>2, <2>6, <2>8, <2>9, TranslatedDeclared
<1>5. CASE i.op = "call" /\ determine_call_handling(f, i) = "None"
  <2>1. effect(f, i) = places(i.args) \cup {i.dest}
    BY <1>5 DEF effect
  <2>2. \A k \in DOMAIN i.args : known(f, i.args[k])
    BY <1>1, <1>5 DEF InstructionDeclared
  <2> QED BY <1>2, <2>1, <2>2 DEF places, known
<1>6. CASE i.op = "call" /\ determine_call_handling(f, i) \notin {"Ready", "None"}
  <2>1. \A op \in assigned(approximation(f, i)) : known(f, op)
    BY <1>1, <1>6, ApproximationKnown
  <2>2. Within(declared(f), visit_assign(i.dest, approximation(f, i)))
    BY <1>2, <2>1, AssignWithin
  <2>3. effect(f, i) = {m.mutated : m \in visit_assign(i.dest, approximation(f, i))}
    BY <1>6 DEF effect
  <2> QED BY <2>2, <2>3 DEF Within
<1> QED BY <1>2, <1>3, <1>4, <1>5, <1>6

LEMMA MutatedOK ==
    ASSUME program \in Programs, NEW f \in Fn, NEW l \in DOMAIN code(f),
           \A w \in built : GraphOK(w, pdg[w]), NEW s, StateOK(f, s)
    PROVE  StateOK(f, apply_mutation(f, s, effect(f, code(f)[l]), single(GlobalLocation(f, l))))
<1> DEFINE at == single(GlobalLocation(f, l))
<1> SUFFICES ASSUME NEW n \in apply_mutation(f, s, effect(f, code(f)[l]), at) PROVE LocalNode(f, n)
  BY DEF StateOK
<1>1. CASE n \in s
  BY <1>1 DEF StateOK
<1>2. CASE \E p \in effect(f, code(f)[l]) : n \in find_outputs(f, p, at)
  <2>1. PICK p \in effect(f, code(f)[l]) : n \in find_outputs(f, p, at)
    BY <1>2
  <2>2. PlacesDeclared => p.local \in declared(f)
    BY EffectDeclared
  <2> QED BY <2>1, <2>2, OutputsOK
<1> QED BY <1>1, <1>2 DEF apply_mutation

LEMMA JoinOK ==
    ASSUME NEW f, NEW g, NEW h, GraphOK(f, g), GraphOK(f, h)
    PROVE  GraphOK(f, Join(g, h))
  BY DEF GraphOK, Join

LEMMA VisitedOK ==
    ASSUME program \in Programs, NEW f \in Fn, f \notin built, NEW l \in DOMAIN code(f),
           \A w \in built : GraphOK(w, pdg[w]), NEW s, StateOK(f, s)
    PROVE  GraphOK(f, visited(f, code(f)[l], s, single(GlobalLocation(f, l))))
<1> DEFINE i == code(f)[l]
           at == single(GlobalLocation(f, l))
           after == apply_mutation(f, s, effect(f, i), at)
           modular == Join(register_mutation(f, s, combine_before(i.args), at),
                           register_mutation(f, after, combine_after(i.args, i.dest), at))
<1>1. PlacesDeclared => InstructionDeclared(f, i)
  BY DeclaredFacts
<1>2. StateOK(f, after)
  BY MutatedOK
<1>3. ASSUME NEW r, PlacesDeclared => \A op \in assigned(r) : known(f, op)
      PROVE  GraphOK(f, register_mutation(f, s, visit_assign(i.dest, r), at))
  <2>1. MutationsOK(f, visit_assign(i.dest, r))
    BY <1>1, <1>3, AssignWithin DEF MutationsOK, InstructionDeclared
  <2> QED BY <2>1, RegisteredOK
<1>4. CASE i.op = "assign"
  <2>1. PlacesDeclared => \A op \in assigned(i.rvalue) : known(f, op)
    BY <1>1, <1>4 DEF InstructionDeclared
  <2>2. visited(f, i, s, at) = register_mutation(f, s, visit_assign(i.dest, i.rvalue), at)
    BY <1>4 DEF visited
  <2> QED BY <1>3, <2>1, <2>2
<1>5. CASE i.op = "call" /\ determine_call_handling(f, i) = "Ready"
  <2>1. l \in calls(f)
    BY <1>5 DEF calls
  <2>2. wanted(f, i) \in built
    BY <1>5, <2>1, ReadyFacts
  <2>3. visited(f, i, s, at) = handle_as_inline(f, i, s, at)
    BY <1>5 DEF visited
  <2> QED BY <2>1, <2>2, <2>3, InlineOK
<1>6. ASSUME i.op # "assign", PlacesDeclared => i.op = "call"
      PROVE  GraphOK(f, modular)
  <2>1. /\ MutationsOK(f, combine_before(i.args))
        /\ MutationsOK(f, combine_after(i.args, i.dest))
    BY <1>1, <1>6, CombineWithin DEF MutationsOK, InstructionDeclared
  <2>2. /\ GraphOK(f, register_mutation(f, s, combine_before(i.args), at))
        /\ GraphOK(f, register_mutation(f, after, combine_after(i.args, i.dest), at))
    BY <1>2, <2>1, RegisteredOK
  <2> QED BY <2>2, JoinOK
<1>7. CASE i.op = "call" /\ determine_call_handling(f, i) = "None"
  <2>1. visited(f, i, s, at) = modular
    BY <1>7 DEF visited
  <2> QED BY <1>6, <1>7, <2>1
<1>8. CASE i.op # "assign" /\ ~(i.op = "call" /\ determine_call_handling(f, i) \in {"Ready", "None"})
  <2>1. PlacesDeclared => i.op = "call"
    BY <1>1, <1>8 DEF InstructionDeclared
  <2>2. PlacesDeclared => \A op \in assigned(approximation(f, i)) : known(f, op)
    BY <1>1, <1>8, <2>1, ApproximationKnown
  <2>3. GraphOK(f, register_mutation(f, s, visit_assign(i.dest, approximation(f, i)), at))
    BY <1>3, <2>2
  <2>4. visited(f, i, s, at) =
            Join(modular, register_mutation(f, s, visit_assign(i.dest, approximation(f, i)), at))
    BY <1>8 DEF visited
  <2> QED BY <1>6, <1>8, <2>1, <2>3, <2>4, JoinOK
<1> QED BY <1>4, <1>5, <1>7, <1>8

-----------------------------------------------------------------------------
(***************************************************************************)
(* What a graph says stays true: the program does not change, and what is  *)
(* built stays built.                                                      *)
(***************************************************************************)
LEMMA DeclaredKept ==
    ASSUME program' = program
    PROVE  PlacesDeclared' <=> PlacesDeclared
<1>1. \A f : code(f)' = code(f) /\ declared(f)' = declared(f)
  BY DEF code, declared
<1>2. \A f, c : classify_call_kind(f, c)' = classify_call_kind(f, c)
  BY <1>1 DEF classify_call_kind
<1>3. \A f, c : on_inline(f, c)' = on_inline(f, c)
  BY <1>2 DEF on_inline, applies
<1>4. \A f, c : calling_convention(f, c)' = calling_convention(f, c)
  BY <1>2, <1>3 DEF calling_convention
<1>5. \A f, c : wanted(f, c)' = wanted(f, c)
  BY ProgramKept
<1>6. \A f, op : known(f, op)' <=> known(f, op)
  BY <1>1 DEF known
<1>7. \A f, i : InstructionDeclared(f, i)' <=> InstructionDeclared(f, i)
  BY <1>1, <1>4, <1>5, <1>6 DEF InstructionDeclared
<1> QED BY <1>1, <1>7 DEF PlacesDeclared

Kept == program' = program /\ \A f \in Fn : entry[f] = "Some" => entry'[f] = "Some"

LEMMA StringKept ==
    ASSUME Kept, NEW f, NEW cs, StringOK(f, cs)
    PROVE  StringOK(f, cs)'
<1>1. built \subseteq built'
  BY DEF Kept, built
<1>2. \A h : code(h)' = code(h) /\ calls(h)' = calls(h)
  BY ProgramKept DEF Kept
<1>3. \A h, c : wanted(h, c)' = wanted(h, c)
  BY ProgramKept DEF Kept
<1>4. IsCallString(f, cs)' <=> IsCallString(f, cs)
  BY <1>2, <1>3 DEF IsCallString
<1> QED BY <1>1, <1>4 DEF StringOK

LEMMA NodeKept ==
    ASSUME Kept, NEW f, NEW n, NodeOK(f, n)
    PROVE  NodeOK(f, n)'
<1>1. PlacesDeclared' <=> PlacesDeclared
  BY DeclaredKept DEF Kept
<1>2. \A h : declared(h)' = declared(h)
  BY DEF declared, Kept
<1>3. StringOK(f, n.at)'
  BY StringKept DEF NodeOK
<1> QED BY <1>1, <1>2, <1>3 DEF NodeOK

LEMMA GraphKept ==
    ASSUME Kept, NEW f, NEW g, GraphOK(f, g)
    PROVE  GraphOK(f, g)'
<1>1. ASSUME NEW e \in g.edges PROVE EdgeOK(f, e)'
  <2>1. EdgeOK(f, e)
    BY DEF GraphOK
  <2>2. NodeOK(f, e.from)' /\ NodeOK(f, e.to)' /\ StringOK(f, e.at)'
    BY <2>1, NodeKept, StringKept DEF EdgeOK
  <2> QED BY <2>1, <2>2 DEF EdgeOK
<1> QED BY <1>1, NodeKept DEF GraphOK

LEMMA StateKept ==
    ASSUME Kept, NEW f, NEW s, StateOK(f, s)
    PROVE  StateOK(f, s)'
<1>1. PlacesDeclared' <=> PlacesDeclared
  BY DeclaredKept DEF Kept
<1>2. declared(f)' = declared(f)
  BY DEF declared, Kept
<1> QED BY <1>1, <1>2 DEF StateOK, LocalNode

LEMMA GraphsNext ==
    ASSUME Kept,
           \A f, g : f \in Fn /\ entry'[f] = "Some" /\ g = pdg'[f] => GraphOK(f, g),
           \A i, f, g, s : i \in DOMAIN stack' /\ f = stack'[i].fn /\ g = stack'[i].graph
                                /\ s = stack'[i].state
                => GraphOK(f, g) /\ StateOK(f, s)
    PROVE  Graphs'
<1>1. \A f \in built' : f \in Fn /\ entry'[f] = "Some"
  BY DEF built
<1>2. \A f \in built' : GraphOK(f, pdg[f])'
  BY <1>1, GraphKept
<1>3. \A i \in DOMAIN stack' : GraphOK(stack[i].fn, stack[i].graph)' /\ StateOK(stack[i].fn, stack[i].state)'
  BY GraphKept, StateKept
<1> QED BY <1>2, <1>3 DEF Graphs

-----------------------------------------------------------------------------
(***************************************************************************)
(* Every step keeps them so.                                               *)
(***************************************************************************)
LEMMA ReturnsOK ==
    ASSUME NEW f \in Fn, NEW g, GraphOK(f, g), DOMAIN g = {"nodes", "edges"}, NEW s, StateOK(f, s)
    PROVE  GraphOK(f, [g EXCEPT !.edges = @ \cup returns(f, s)])
<1> DEFINE h == [g EXCEPT !.edges = @ \cup returns(f, s)]
<1>1. h.nodes = g.nodes /\ h.edges = g.edges \cup returns(f, s)
  OBVIOUS
<1>2. ASSUME NEW e \in returns(f, s) PROVE EdgeOK(f, e)
  <2> DEFINE ret == single(GlobalLocation(f, Len(code(f)) + 1))
             end == single(GlobalLocation(f, End))
  <2>1. PICK n \in s : e = DepEdge(n, DepNode(n.place, end), ret, Operand, returned_as(n.place))
    BY DEF returns
  <2>2. LocalNode(f, n)
    BY DEF StateOK
  <2>3. PlacesDeclared => n.place.local \in declared(f)
    BY <2>2 DEF LocalNode
  <2>4. LocalNode(f, DepNode(n.place, end))
    BY <2>3, NodeAt
  <2>5. NodeOK(f, n) /\ NodeOK(f, DepNode(n.place, end)) /\ StringOK(f, ret)
    BY <2>2, <2>4, NodeHere, SingleString
  <2> HIDE DEF ret, end
  <2> QED BY <2>1, <2>5 DEF EdgeOK, DepEdge
<1> HIDE DEF h
<1> QED BY <1>1, <1>2 DEF GraphOK, h

\* What the construction's steps rely on.
LEMMA OnTop ==
    ASSUME IInv, Graphs, stack # <<>>
    PROVE  /\ program \in Programs /\ top.fn \in Fn /\ top.fn \notin built
           /\ DOMAIN top = {"fn", "pass", "at", "state", "graph", "handled"}
           /\ DOMAIN top.graph = {"nodes", "edges"}
           /\ GraphOK(top.fn, top.graph) /\ StateOK(top.fn, top.state)
           /\ ~at_end(top) => top.at \in DOMAIN code(top.fn)
           /\ Len(stack) \in DOMAIN stack
           /\ \A f \in built : GraphOK(f, pdg[f])
<1>1. Frames /\ Entries
  BY DEF IInv
<1>2. Len(stack) \in DOMAIN stack /\ top = stack[Len(stack)] /\ FrameOK(top)
  BY <1>1, TopFacts
<1>3. program \in Programs /\ top.fn \in Fn
  BY <1>1, <1>2 DEF Frames, FrameOK
<1>4. top.fn \notin built
  BY <1>1, <1>2, <1>3 DEF Entries, built
<1>5. GraphOK(top.fn, top.graph) /\ StateOK(top.fn, top.state)
  BY <1>2 DEF Graphs
<1>6. ASSUME ~at_end(top) PROVE top.at \in DOMAIN code(top.fn)
  <2>1. Len(code(top.fn)) \in Nat /\ DOMAIN code(top.fn) = 1 .. Len(code(top.fn))
    BY <1>3, CodeFacts
  <2>2. top.at \in 1 .. Len(code(top.fn)) + 1
    BY <1>2 DEF FrameOK
  <2> QED BY <1>6, <2>1, <2>2 DEF at_end
<1> QED BY <1>2, <1>3, <1>4, <1>5, <1>6 DEF FrameOK, Graphs

\* Only the innermost frame changes.
LEMMA AdvanceGraphs ==
    ASSUME IInv, Graphs, stack # <<>>, NEW fr, Advance(fr), UNCHANGED <<program, entry, pdg>>,
           fr.fn = top.fn, GraphOK(fr.fn, fr.graph), StateOK(fr.fn, fr.state)
    PROVE  Graphs'
<1>1. Kept
  BY DEF Kept
<1>2. DOMAIN stack' = DOMAIN stack
  BY DEF Advance
<1>3. Len(stack) \in DOMAIN stack
  BY OnTop
<1>4. \A i \in DOMAIN stack : stack'[i] = IF i = Len(stack) THEN fr ELSE stack[i]
  BY DEF Advance
<1>5. \A i \in DOMAIN stack : GraphOK(stack[i].fn, stack[i].graph) /\ StateOK(stack[i].fn, stack[i].state)
  BY DEF Graphs
<1>6. \A f \in Fn : entry'[f] = "Some" => GraphOK(f, pdg'[f])
  BY DEF Graphs, built
<1> QED BY <1>1, <1>2, <1>4, <1>5, <1>6, GraphsNext

LEMMA ConstructGraphs ==
    ASSUME IInv, Graphs, NEW f \in Fn, entry[f] = "absent", Construct(f)
    PROVE  Graphs'
<1>1. /\ program' = program /\ pdg' = pdg /\ entry' = [entry EXCEPT ![f] = "None"]
      /\ stack' = Append(stack, Frame(f))
  BY DEF Construct
<1>2. /\ stack \in Seq({stack[i] : i \in DOMAIN stack}) /\ DOMAIN entry = Fn
  BY DEF IInv, Frames, Entries
<1>3. \A h \in Fn : (entry[h] = "Some" => entry'[h] = "Some") /\ (entry'[h] = "Some" => entry[h] = "Some")
  BY <1>1, <1>2
<1>4. Kept
  BY <1>1, <1>3 DEF Kept
<1> DEFINE S == {stack[i] : i \in DOMAIN stack}
           n == Len(stack)
<1>5. n \in Nat /\ DOMAIN stack = 1 .. n /\ stack \in Seq(S)
  BY <1>2
<1> DEFINE fr == Frame(f)
<1>6. fr.fn = f /\ fr.graph = EmptyGraph /\ fr.state = {}
  BY DEF Frame
<1> HIDE DEF fr
<1>7. DOMAIN stack' = 1 .. n + 1 /\ \A i \in DOMAIN stack' : stack'[i] = IF i = n + 1 THEN fr ELSE stack[i]
  <2>1. stack' = Append(stack, fr) /\ stack \in Seq(S \cup {fr})
    <3>1. S \subseteq S \cup {fr}
      OBVIOUS
    <3> HIDE DEF S
    <3> QED BY <1>1, <1>5, <3>1 DEF fr
  <2> HIDE DEF S
  <2> QED BY <1>5, <2>1
<1>8. GraphOK(f, fr.graph) /\ StateOK(f, fr.state)
  BY <1>6 DEF GraphOK, StateOK, EmptyGraph
<1>9. \A i \in DOMAIN stack : GraphOK(stack[i].fn, stack[i].graph) /\ StateOK(stack[i].fn, stack[i].state)
  BY DEF Graphs
<1>10. \A i \in DOMAIN stack' :
            GraphOK(stack'[i].fn, stack'[i].graph) /\ StateOK(stack'[i].fn, stack'[i].state)
  <2> TAKE i \in DOMAIN stack'
  <2>1. CASE i = n + 1
    BY <1>6, <1>7, <1>8, <2>1
  <2>2. CASE i # n + 1
    <3>1. i \in DOMAIN stack /\ stack'[i] = stack[i]
      BY <1>5, <1>7, <2>2
    <3> QED BY <1>9, <3>1
  <2> QED BY <2>1, <2>2
<1>11. \A h \in Fn : entry'[h] = "Some" => GraphOK(h, pdg'[h])
  BY <1>1, <1>3 DEF Graphs, built
<1> QED BY <1>4, <1>10, <1>11, GraphsNext

\* Pops the innermost frame, whose graph is all there.
LEMMA FinishGraphs == IInv /\ Graphs /\ Finish => Graphs'
<1> SUFFICES ASSUME IInv, Graphs, Finish PROVE Graphs'
  OBVIOUS
<1>1. stack # <<>> /\ program' = program
  BY DEF Finish, Busy
<1>2. CASE UNCHANGED <<entry, pdg, stack>>
  <2>1. Kept
    BY <1>1, <1>2 DEF Kept
  <2> QED BY <1>2, <2>1, GraphsNext DEF Graphs, built
<1>3. CASE ~UNCHANGED <<entry, pdg, stack>>
  <2> DEFINE f == top.fn
             g == [top.graph EXCEPT !.edges = @ \cup returns(f, top.state)]
             n == Len(stack)
             S == {stack[i] : i \in DOMAIN stack}
  <2>1. /\ pdg' = [pdg EXCEPT ![f] = g] /\ entry' = [entry EXCEPT ![f] = "Some"]
        /\ stack' = SubSeq(stack, 1, n - 1)
    BY <1>3 DEF Finish
  <2>2. GraphOK(f, g)
    BY <1>1, OnTop, ReturnsOK
  <2> HIDE DEF g
  <2>3. /\ DOMAIN entry = Fn /\ DOMAIN pdg = Fn /\ f \in Fn /\ n \in Nat /\ n # 0 /\ DOMAIN stack = 1 .. n
        /\ stack \in Seq(S)
    BY <1>1, OnTop, TopFacts DEF IInv, Frames, Entries
  <2>4. Kept
    BY <1>1, <2>1, <2>3 DEF Kept
  <2>5. \A h \in Fn : entry'[h] = "Some" => GraphOK(h, pdg'[h])
    BY <2>1, <2>2, <2>3 DEF Graphs, built
  <2> HIDE DEF S
  <2>6. Len(stack') = n - 1 /\ stack' \in Seq(S) /\ \A i \in 1 .. n - 1 : stack'[i] = stack[i]
    BY <1>1, <2>1, <2>3, InputsAreGraphs, Memo!Popped
  <2> HIDE DEF n
  <2>7. \A i \in DOMAIN stack' : i \in DOMAIN stack /\ stack'[i] = stack[i]
    BY <2>3, <2>6
  <2> QED BY <2>4, <2>5, <2>7, GraphsNext DEF Graphs
<1> QED BY <1>2, <1>3

LEMMA ConstructionGraphs == IInv /\ Graphs /\ ConstructionStep => Graphs'
<1> SUFFICES ASSUME IInv, Graphs, ConstructionStep PROVE Graphs'
  OBVIOUS
<1>1. CASE ConstructCallee
  <2> DEFINE f == wanted(top.fn, instruction(top))
  <2>1. stack # <<>> /\ asks(top) /\ Construct(f)
    BY <1>1 DEF ConstructCallee
  <2>2. f \in Fn /\ entry[f] = "absent"
    BY <2>1, CalleeOfTop
  <2> HIDE DEF f
  <2> QED BY <2>1, <2>2, ConstructGraphs
<1> DEFINE at == here(top)
           i == instruction(top)
           s == apply_mutation(top.fn, top.state, effect(top.fn, i), at)
<1>2. ASSUME stack # <<>>, ~at_end(top)
      PROVE  StateOK(top.fn, s) /\ GraphOK(top.fn, visited(top.fn, i, top.state, at))
  BY <1>2, OnTop, MutatedOK, VisitedOK DEF instruction, here
<1>3. ASSUME stack # <<>>
      PROVE  mutate(top).fn = top.fn /\ mutate(top).graph = top.graph /\ mutate(top).state = s
             /\ DOMAIN mutate(top) = {"fn", "pass", "at", "state", "graph", "handled"}
  BY <1>3, OnTop DEF mutate
<1> HIDE DEF at, i, s
<1>4. CASE Iterate
  <2> DEFINE fr == [mutate(top) EXCEPT !.handled = Append(@, handling(top))]
  <2>1. stack # <<>> /\ ~at_end(top) /\ Advance(fr) /\ UNCHANGED <<program, entry, pdg>>
    BY <1>4 DEF Iterate, Busy
  <2>2. fr.fn = top.fn /\ fr.graph = top.graph /\ fr.state = s
    BY <1>3, <2>1
  <2> HIDE DEF fr
  <2> QED BY <1>2, <2>1, <2>2, OnTop, AdvanceGraphs
<1>5. CASE Fixpoint
  <2> DEFINE fr == [top EXCEPT !.pass = "visit", !.at = 1, !.state = {}]
  <2>1. stack # <<>> /\ Advance(fr) /\ UNCHANGED <<program, entry, pdg>>
    BY <1>5 DEF Fixpoint, Busy
  <2>2. fr.fn = top.fn /\ fr.graph = top.graph /\ fr.state = {}
    BY <2>1, OnTop
  <2>3. StateOK(fr.fn, fr.state)
    BY <2>2 DEF StateOK
  <2> HIDE DEF fr
  <2> QED BY <2>1, <2>2, <2>3, OnTop, AdvanceGraphs
<1>6. CASE Visit
  <2> DEFINE g == visited(top.fn, i, top.state, at)
             fr == [mutate(top) EXCEPT !.graph = Join(@, g)]
  <2>1. stack # <<>> /\ ~at_end(top) /\ Advance(fr) /\ UNCHANGED <<program, entry, pdg>>
    BY <1>6 DEF Visit, Busy, i, at
  <2>2. GraphOK(top.fn, g)
    BY <1>2, <2>1
  <2> HIDE DEF g
  <2>3. fr.fn = top.fn /\ fr.graph = Join(top.graph, g) /\ fr.state = s
    BY <1>3, <2>1
  <2> HIDE DEF fr
  <2>4. GraphOK(top.fn, Join(top.graph, g))
    BY <2>1, <2>2, OnTop, JoinOK
  <2> QED BY <1>2, <2>1, <2>3, <2>4, OnTop, AdvanceGraphs
<1> QED BY <1>1, <1>4, <1>5, <1>6, FinishGraphs DEF ConstructionStep

-----------------------------------------------------------------------------
(***************************************************************************)
(* The SPDGs.                                                              *)
(***************************************************************************)
\* A call string of target t: below an async function, it is one of the generator's.
SpdgString(t, cs) ==
    IF determine_async(t)
    THEN /\ cs = push_front(Tail(cs), GlobalLocation(t, generator_loc(code(t))))
         /\ StringOK(generator(t), Tail(cs))
    ELSE StringOK(t, cs)

SpdgNode(t, n) ==
    /\ SpdgString(t, n.at)
    /\ leaf(n.at).function \in Fn
    /\ PlacesDeclared => n.place.local \in declared(leaf(n.at).function)

SpdgGraph(t, g) ==
    /\ \A n \in nodes_of(g) : SpdgNode(t, n)
    /\ \A e \in g.edges : SpdgString(t, e.at)

Spdgs == \A t \in DOMAIN spdgs : t \in Fn /\ SpdgGraph(t, spdgs[t])

CInv == SInv /\ Graphs /\ Spdgs

\* A call string is as long as it has functions, and ends in one of them.
LEMMA StringFacts ==
    ASSUME NEW f \in Fn, NEW cs, StringOK(f, cs)
    PROVE  /\ cs \in Seq(locations(cs)) /\ Len(cs) \in Nat /\ Len(cs) # 0
           /\ DOMAIN cs = 1 .. Len(cs)
           /\ functions(cs) \subseteq Fn /\ leaf(cs).function \in Fn
<1>1. cs \in Seq(locations(cs)) /\ cs # <<>> /\ functions(cs) \subseteq built \cup {f}
  BY DEF StringOK
<1>2. Len(cs) \in Nat /\ Len(cs) # 0 /\ DOMAIN cs = 1 .. Len(cs)
  BY <1>1
<1>3. functions(cs) \subseteq Fn
  BY <1>1 DEF built
<1>4. leaf(cs).function \in functions(cs)
  BY <1>2 DEF leaf, functions
<1> QED BY <1>1, <1>2, <1>3, <1>4

\* The call string of a generator, seen from its async function.
LEMMA PushedTail ==
    ASSUME NEW f \in Fn, NEW ds, StringOK(f, ds), NEW loc, NEW cs, cs = push_front(ds, loc)
    PROVE  /\ Tail(cs) = ds /\ leaf(cs) = leaf(ds) /\ cs[1] = loc
           /\ Len(cs) = Len(ds) + 1 /\ \A i \in 1 .. Len(ds) : cs[i + 1] = ds[i]
           /\ cs \in Seq({loc} \cup locations(ds))
<1>1. ds \in Seq(locations(ds)) /\ Len(ds) \in Nat /\ Len(ds) # 0 /\ DOMAIN ds = 1 .. Len(ds)
  BY StringFacts
<1> DEFINE S == {loc} \cup locations(ds)
<1>2. ds \in Seq(S) /\ <<loc>> \in Seq(S)
  BY <1>1
<1>3. cs = <<loc>> \o ds
  BY DEF push_front
<1> HIDE DEF S
<1>4. /\ cs \in Seq(S) /\ Len(cs) = Len(ds) + 1 /\ cs[1] = loc
      /\ \A i \in 1 .. Len(ds) : cs[i + 1] = ds[i]
  BY <1>1, <1>2, <1>3
<1>5. Tail(cs) \in Seq(S) /\ Len(Tail(cs)) = Len(ds) /\ \A i \in 1 .. Len(ds) : Tail(cs)[i] = cs[i + 1]
  BY <1>1, <1>4
<1>6. Tail(cs) = ds
  BY <1>1, <1>2, <1>4, <1>5
<1>7. leaf(cs) = leaf(ds)
  BY <1>1, <1>4 DEF leaf
<1> QED BY <1>4, <1>6, <1>7 DEF S

\* The graph that a target's SPDG is made of.
LEMMA ConstructedGraph ==
    ASSUME program \in Programs, NEW t \in Fn, root_of(t) \in built, Graphs
    PROVE  SpdgGraph(t, construct_graph(t))
<1> DEFINE r == root_of(t)
           g == pdg[r]
           loc == GlobalLocation(t, generator_loc(code(t)))
<1>1. GraphOK(r, g) /\ r \in Fn
  BY DEF Graphs, built
<1>2. ASSUME NEW n \in nodes_of(g) PROVE NodeOK(r, n)
  <2>1. n \in g.nodes \/ \E e \in g.edges : n = e.from \/ n = e.to
    BY DEF nodes_of
  <2> QED BY <1>1, <2>1 DEF GraphOK, EdgeOK
<1>3. ASSUME NEW e \in g.edges PROVE EdgeOK(r, e)
  BY <1>1 DEF GraphOK
<1>4. CASE determine_async(t)
  <2>1. r = generator(t) /\ construct_graph(t) = push_call_string_root(g, loc)
    BY <1>4 DEF root_of, construct_graph
  <2> DEFINE h == push_call_string_root(g, loc)
  <2>2. ASSUME NEW ds, StringOK(r, ds)
        PROVE  SpdgString(t, push_front(ds, loc)) /\ leaf(push_front(ds, loc)) = leaf(ds)
    <3> HIDE DEF r
    <3>1. Tail(push_front(ds, loc)) = ds /\ leaf(push_front(ds, loc)) = leaf(ds)
      BY <1>1, <2>2, PushedTail
    <3> QED BY <1>4, <2>1, <2>2, <3>1 DEF SpdgString
  <2>3. ASSUME NEW n, NodeOK(r, n) PROVE SpdgNode(t, push_node(n, loc))
    <3> HIDE DEF r, loc
    <3>1. n = [place |-> n.place, at |-> n.at] /\ StringOK(r, n.at)
      BY <2>3 DEF NodeOK, DepNode
    <3>2. push_node(n, loc).place = n.place /\ push_node(n, loc).at = push_front(n.at, loc)
      BY <3>1 DEF push_node
    <3>3. leaf(n.at).function \in Fn
      BY <1>1, <3>1, StringFacts
    <3> QED BY <2>2, <2>3, <3>1, <3>2, <3>3 DEF SpdgNode, NodeOK
  <2>4. h.nodes = {push_node(n, loc) : n \in g.nodes}
    BY DEF push_call_string_root
  <2>5. h.edges = {[e EXCEPT !.from = push_node(@, loc), !.to = push_node(@, loc),
                             !.at = push_front(@, loc)] : e \in g.edges}
    BY DEF push_call_string_root
  <2>6. ASSUME NEW d \in h.edges
        PROVE  SpdgNode(t, d.from) /\ SpdgNode(t, d.to) /\ SpdgString(t, d.at)
    <3>1. PICK e \in g.edges : d = [e EXCEPT !.from = push_node(@, loc), !.to = push_node(@, loc),
                                             !.at = push_front(@, loc)]
      BY <2>5
    <3>2. /\ e = [from |-> e.from, to |-> e.to, at |-> e.at,
                  source_use |-> e.source_use, target_use |-> e.target_use]
          /\ NodeOK(r, e.from) /\ NodeOK(r, e.to) /\ StringOK(r, e.at)
      BY <1>3 DEF EdgeOK, DepEdge
    <3>3. d.from = push_node(e.from, loc) /\ d.to = push_node(e.to, loc) /\ d.at = push_front(e.at, loc)
      BY <3>1, <3>2
    <3> QED BY <2>2, <2>3, <3>2, <3>3
  <2>7. ASSUME NEW n \in h.nodes PROVE SpdgNode(t, n)
    <3>1. PICK k \in g.nodes : n = push_node(k, loc)
      BY <2>4
    <3>2. NodeOK(r, k)
      BY <1>1 DEF GraphOK
    <3> QED BY <2>3, <3>1, <3>2
  <2> HIDE DEF h
  <2>8. SpdgGraph(t, h)
    BY <2>6, <2>7 DEF SpdgGraph, nodes_of
  <2> QED BY <2>1, <2>8 DEF h
<1>5. CASE ~determine_async(t)
  <2>1. r = t /\ construct_graph(t) = g
    BY <1>5 DEF root_of, construct_graph
  <2> HIDE DEF r, g, loc
  <2>2. ASSUME NEW n \in nodes_of(g) PROVE SpdgNode(t, n)
    <3>1. NodeOK(t, n)
      BY <1>2, <2>1
    <3>2. leaf(n.at).function \in Fn
      BY <3>1, StringFacts DEF NodeOK
    <3> QED BY <1>5, <3>1, <3>2 DEF NodeOK, SpdgNode, SpdgString
  <2>3. ASSUME NEW e \in g.edges PROVE SpdgString(t, e.at)
    BY <1>3, <1>5, <2>1 DEF EdgeOK, SpdgString
  <2> QED BY <2>1, <2>2, <2>3 DEF SpdgGraph
<1> QED BY <1>4, <1>5

-----------------------------------------------------------------------------
LEMMA SpdgStringKept ==
    ASSUME Kept, NEW t, NEW cs, SpdgString(t, cs)
    PROVE  SpdgString(t, cs)'
<1>1. /\ determine_async(t)' <=> determine_async(t)
      /\ code(t)' = code(t) /\ generator(t)' = generator(t)
  BY DEF Kept, determine_async, generator, code
<1>2. CASE determine_async(t)
  <2>1. /\ cs = push_front(Tail(cs), GlobalLocation(t, generator_loc(code(t))))
        /\ StringOK(generator(t), Tail(cs))
    BY <1>2 DEF SpdgString
  <2>2. ASSUME NEW g, NEW ds, g = generator(t), StringOK(g, ds) PROVE StringOK(g, ds)'
    BY <2>2, StringKept
  <2>3. StringOK(generator(t), Tail(cs))'
    BY <1>1, <2>1, <2>2
  <2> QED BY <1>1, <1>2, <2>1, <2>3 DEF SpdgString
<1>3. CASE ~determine_async(t)
  BY <1>1, <1>3, StringKept DEF SpdgString
<1> QED BY <1>2, <1>3

LEMMA SpdgGraphKept ==
    ASSUME Kept, NEW t, NEW g, SpdgGraph(t, g)
    PROVE  SpdgGraph(t, g)'
<1>1. (PlacesDeclared' <=> PlacesDeclared) /\ \A h : declared(h)' = declared(h)
  BY DeclaredKept DEF Kept, declared
<1>2. ASSUME NEW n \in nodes_of(g) PROVE SpdgNode(t, n)'
  <2>1. SpdgNode(t, n)
    BY DEF SpdgGraph
  <2> QED BY <1>1, <2>1, SpdgStringKept DEF SpdgNode
<1> QED BY <1>2, SpdgStringKept DEF SpdgGraph

\* The edges and nodes of an SPDG are those of the graph it is made of.
LEMMA MadeOf ==
    ASSUME NEW t, NEW g, SpdgGraph(t, g)
    PROVE  SpdgGraph(t, SPDG(t, g))
<1> DEFINE s == SPDG(t, g)
<1>1. s.nodes = nodes_of(g) /\ s.edges = g.edges
  BY DEF SPDG
<1>2. nodes_of(s) = nodes_of(g)
  BY <1>1 DEF nodes_of
<1> HIDE DEF s
<1>3. SpdgGraph(t, s)
  BY <1>1, <1>2 DEF SpdgGraph
<1> QED BY <1>3 DEF s

LEMMA InitCInv == Init => CInv
<1> SUFFICES ASSUME Init PROVE CInv
  OBVIOUS
<1>1. /\ entry = [f \in Fn |-> "absent"] /\ stack = <<>> /\ spdgs = [t \in {} |-> {}]
  BY DEF Init, NothingGenerated, NothingConstructed
<1>2. built = {} /\ DOMAIN stack = {} /\ DOMAIN spdgs = {}
  BY <1>1 DEF built
<1> QED BY <1>2, InitSInv DEF CInv, Graphs, Spdgs

LEMMA CInvStep == CInv /\ [Next]_vars => CInv'
<1> SUFFICES ASSUME CInv, [Next]_vars PROVE CInv'
  OBVIOUS
<1>1. SInv /\ SInv' /\ IInv /\ Graphs /\ Spdgs /\ program \in Programs /\ queue \in Seq(Fn)
  BY SInvStep DEF CInv, SInv, IInv, Frames, QueueOK
<1>2. Kept
  BY <1>1, CacheKept DEF Kept
<1>3. Graphs'
  <2>1. CASE StartTarget
    <3>1. queue # <<>> /\ entry[root_of(target)] = "absent" /\ Construct(root_of(target))
      BY <2>1 DEF StartTarget, ConstructRoot
    <3>2. root_of(target) \in Fn
      BY <1>1, <3>1, RootOfTarget
    <3> QED BY <1>1, <3>1, <3>2, ConstructGraphs
  <2>2. CASE ConstructStep
    BY <1>1, <2>2, ConstructionGraphs DEF ConstructStep
  <2>3. CASE UNCHANGED construction_vars
    <3>1. entry' = entry /\ pdg' = pdg /\ stack' = stack
      BY <2>3 DEF construction_vars
    <3> QED BY <1>1, <1>2, <3>1, GraphsNext DEF Graphs, built
  <2> QED BY <2>1, <2>2, <2>3 DEF Next, Convert, TypeStep, FinishTarget, Describe, Exit, vars
<1>4. Spdgs'
  <2>1. SUFFICES \A t \in DOMAIN spdgs' : t \in Fn /\ SpdgGraph(t, spdgs'[t])
    <3>1. ASSUME NEW t, NEW g, SpdgGraph(t, g) PROVE SpdgGraph(t, g)'
      BY <1>2, <3>1, SpdgGraphKept
    <3> QED BY <2>1, <3>1 DEF Spdgs
  <2>2. CASE Convert
    <3>1. /\ queue # <<>> /\ entry[root_of(target)] = "Some"
          /\ spdgs' = [t \in DOMAIN spdgs \cup {target} |->
                            IF t = target THEN SPDG(target, construct_graph(target)) ELSE spdgs[t]]
      BY <2>2 DEF Convert
    <3>2. target \in Fn /\ root_of(target) \in built
      BY <1>1, <3>1, RootOfTarget DEF target, built
    <3>3. SpdgGraph(target, SPDG(target, construct_graph(target)))
      BY <1>1, <3>2, ConstructedGraph, MadeOf
    <3> QED BY <1>1, <3>1, <3>2, <3>3 DEF Spdgs
  <2>3. CASE spdgs' = spdgs
    BY <1>1, <2>3 DEF Spdgs
  <2> QED BY <2>2, <2>3 DEF Next, StartTarget, ConstructStep, TypeStep, FinishTarget, Describe,
                            Exit, vars, generation
<1> QED BY <1>1, <1>3, <1>4 DEF CInv

-----------------------------------------------------------------------------
(***************************************************************************)
(* What the resolver finds.                                                *)
(***************************************************************************)
\* The resolver looks a stub up for the function that a call names (graph_converter.rs:698),
\* the analyser for the one that is called: a call that is followed has the same by both.
NamesCallee ==
    \A f \in Fn : \A l \in calls(f) :
        LET c == code(f)[l]
        IN  wanted(f, c) # None /\ ~c.shim =>
                /\ program.stub[c.def] = program.stub[c.callee]
                /\ c.poll => program.stub[c.callee] = None

\* The function that runs at a call is the one that the resolver finds.
LEMMA ResolvesCall ==
    ASSUME NamesCallee, NEW ds, NEW f \in Fn, NEW l \in calls(f),
           leaf(ds).function = f, leaf(ds).location = l,
           wanted(f, code(f)[l]) # None, ~code(f)[l].shim
    PROVE  resolve_internal(ds) = wanted(f, code(f)[l])
<1> DEFINE c == code(f)[l]
           kind == classify_call_kind(f, c)
           t == marker_target(kind, c)
<1>1. c.op = "call"
  BY DEF calls
<1>2. /\ program.stub[c.def] = program.stub[c.callee]
      /\ c.poll => program.stub[c.callee] = None
  BY DEF NamesCallee
<1> HIDE DEF c
<1>3. resolve_internal(ds) = IF program.stub[c.def] # None THEN program.stub[c.def] ELSE called(c)
  BY <1>1 DEF resolve_internal, c
<1>4. wanted(f, c) # None /\ ~c.shim
  BY DEF c
<1>5. /\ c.callee # None /\ on_inline(f, c) # "Skip"
      /\ wanted(f, c) = IF on_inline(f, c) = "Replace" THEN program.stub[c.callee] ELSE c.callee
  BY <1>4 DEF wanted
<1>6. called(c) = c.callee
  BY <1>4, <1>5 DEF called
<1>7. CASE on_inline(f, c) = "Replace"
  BY <1>2, <1>3, <1>5, <1>7, ReplaceFacts DEF c
<1>8. CASE on_inline(f, c) # "Replace"
  <2>1. program.stub[t] = None
    <3> HIDE DEF kind, t
    <3>1. on_inline(f, c) =
             CASE program.stub[t] # None /\ kind.kind # "AsyncPoll" /\ applies(c) -> "Replace"
               [] program.stub[t] # None /\ ~(kind.kind # "AsyncPoll" /\ applies(c)) -> "Skip"
               [] program.stub[t] = None /\ t \in program.skip -> "Skip"
               [] OTHER -> "NoSkip"
      BY DEF on_inline, kind, t
    <3> QED BY <1>5, <1>8, <3>1
  <2>2. CASE c.poll
    BY <1>2, <1>3, <1>5, <1>6, <1>8, <2>2 DEF c
  <2>3. CASE ~c.poll
    <3>1. kind = [kind |-> "Indirect", once_shim |-> FALSE] \/ kind = [kind |-> "Direct"]
      BY <1>4, <2>3 DEF classify_call_kind
    <3>2. t = c.callee
      BY <3>1 DEF marker_target
    <3> QED BY <1>2, <1>3, <1>5, <1>6, <1>8, <2>1, <3>2 DEF c
  <2> QED BY <2>2, <2>3
<1> QED BY <1>7, <1>8 DEF c

\* A call string of two locations or more whose last call is followed.
LEMMA ResolvesLast ==
    ASSUME program \in Programs, NamesCallee, NEW S, NEW cs \in Seq(S), Len(cs) > 1,
           NEW h, h = cs[Len(cs) - 1], h.function \in Fn, h.location \in calls(h.function),
           wanted(h.function, code(h.function)[h.location]) = leaf(cs).function,
           leaf(cs).function \in Fn
    PROVE  through_shim(cs) \/ resolve_internal(callers(cs)) = leaf(cs).function
<1> DEFINE n == Len(cs)
<1>1. n \in Nat /\ n - 1 \in 1 .. n /\ n - 1 \in Nat
  OBVIOUS
<1>2. callers(cs) \in Seq(S) /\ Len(callers(cs)) = n - 1 /\ callers(cs)[n - 1] = cs[n - 1]
  BY <1>1 DEF callers
<1>3. leaf(callers(cs)) = h
  BY <1>2 DEF leaf
<1>4. leaf(cs).function # None
  BY NoneAssumption
<1>5. h.location \in DOMAIN code(h.function) /\ code(h.function)[h.location].op = "call"
  BY DEF calls
<1>6. is_real(h.location)
  BY <1>5, LocationsAssumption DEF code
<1>7. code(h.function)[h.location] \in calls_at(h)
  BY <1>5, <1>6 DEF calls_at
<1>8. CASE code(h.function)[h.location].shim
  BY <1>3, <1>7, <1>8 DEF through_shim
<1>9. CASE ~code(h.function)[h.location].shim
  BY <1>3, <1>4, <1>9, ResolvesCall
<1> QED BY <1>8, <1>9

LEMMA Resolves ==
    ASSUME program \in Programs, NamesCallee, NEW t \in Fn, NEW cs, SpdgString(t, cs),
           determine_async(t) => generator(t) \in Fn
    PROVE  root(cs).function = t /\ (through_shim(cs) \/ resolve(t, cs) = leaf(cs).function)
<1> DEFINE n == Len(cs)
<1>1. CASE ~determine_async(t)
  <2>1. StringOK(t, cs) /\ IsCallString(t, cs)
    BY <1>1 DEF SpdgString, StringOK
  <2>2. /\ cs \in Seq(locations(cs)) /\ n \in Nat /\ n # 0 /\ DOMAIN cs = 1 .. n
        /\ functions(cs) \subseteq Fn /\ leaf(cs).function \in Fn
    BY <2>1, StringFacts
  <2>3. root(cs).function = t
    BY <2>1 DEF IsCallString
  <2>4. CASE n = 1
    BY <2>3, <2>4 DEF resolve, is_at_root
  <2>5. CASE n # 1
    <3> DEFINE h == cs[n - 1]
    <3>1. n - 1 \in 1 .. n - 1 /\ n - 1 \in DOMAIN cs /\ (n - 1) + 1 = n
      BY <2>2, <2>5
    <3>2. h.function \in Fn
      BY <2>2, <3>1 DEF functions
    <3>3. /\ h.location \in calls(h.function)
          /\ wanted(h.function, code(h.function)[h.location]) = cs[n].function
      BY <2>1, <3>1 DEF IsCallString
    <3>4. through_shim(cs) \/ resolve_internal(callers(cs)) = leaf(cs).function
      <4>1. wanted(h.function, code(h.function)[h.location]) = leaf(cs).function
        BY <3>3 DEF leaf
      <4>2. n > 1
        BY <2>2, <2>5
      <4> HIDE DEF h
      <4>3. h = cs[Len(cs) - 1]
        BY DEF h
      <4> QED BY <2>2, <3>2, <3>3, <4>1, <4>2, <4>3, ResolvesLast
    <3>5. resolve(t, cs) = resolve_internal(callers(cs))
      BY <1>1, <2>5 DEF resolve, is_at_root
    <3> QED BY <2>3, <3>4, <3>5
  <2> QED BY <2>4, <2>5
<1>2. CASE determine_async(t)
  <2> DEFINE r == generator(t)
             ds == Tail(cs)
             loc == GlobalLocation(t, generator_loc(code(t)))
             k == Len(ds)
  <2>1. cs = push_front(ds, loc) /\ StringOK(r, ds) /\ r \in Fn /\ loc.function = t
    BY <1>2 DEF SpdgString, GlobalLocation
  <2> HIDE DEF r, loc, ds
  <2>2. IsCallString(r, ds)
    BY <2>1 DEF StringOK
  <2>3. /\ leaf(cs) = leaf(ds) /\ cs[1] = loc /\ n = k + 1 /\ \A i \in 1 .. k : cs[i + 1] = ds[i]
        /\ cs \in Seq({loc} \cup locations(ds))
    BY <2>1, PushedTail
  <2>4. /\ ds \in Seq(locations(ds)) /\ k \in Nat /\ k # 0 /\ DOMAIN ds = 1 .. k
        /\ functions(ds) \subseteq Fn /\ leaf(ds).function \in Fn
    BY <2>1, StringFacts
  <2>5. root(cs) = cs[1]
    BY <2>3, <2>4 DEF root
  <2>6. root(cs).function = t
    BY <2>1, <2>3, <2>5
  <2>7. CASE k = 1
    BY <1>2, <2>3, <2>6, <2>7 DEF resolve
  <2>8. CASE k # 1
    <3> DEFINE h == ds[k - 1]
    <3>1. k - 1 \in 1 .. k - 1 /\ k - 1 \in DOMAIN ds /\ k - 1 \in 1 .. k /\ (k - 1) + 1 = k
      BY <2>4, <2>8
    <3>2. h.function \in Fn
      BY <2>4, <3>1 DEF functions
    <3>3. /\ h.location \in calls(h.function)
          /\ wanted(h.function, code(h.function)[h.location]) = ds[k].function
      BY <2>2, <3>1 DEF IsCallString
    <3>4. cs[n - 1] = h /\ n > 1
      <4>1. cs[(k - 1) + 1] = h
        BY <2>3, <3>1
      <4> QED BY <2>3, <2>4, <3>1, <4>1
    <3>5. through_shim(cs) \/ resolve_internal(callers(cs)) = leaf(cs).function
      <4>1. wanted(h.function, code(h.function)[h.location]) = leaf(cs).function
        BY <2>3, <3>3 DEF leaf
      <4>2. leaf(cs).function \in Fn
        BY <2>3, <2>4
      <4> HIDE DEF h
      <4> QED BY <2>3, <3>2, <3>3, <3>4, <4>1, <4>2, ResolvesLast
    <3>6. resolve(t, cs) = resolve_internal(callers(cs))
      BY <2>3, <2>4, <2>8 DEF resolve, is_at_root
    <3> QED BY <2>6, <3>5, <3>6
  <2> QED BY <2>7, <2>8
<1> QED BY <1>1, <1>2

LEMMA GraphStrings ==
    ASSUME NEW f, NEW g, GraphOK(f, g), NEW cs \in mentioned_call_string(g)
    PROVE  IsCallString(f, cs)
<1>1. CASE \E e \in g.edges : cs = e.at
  BY <1>1 DEF GraphOK, EdgeOK, StringOK
<1>2. CASE \E n \in nodes_of(g) : cs = n.at
  <2>1. PICK n \in nodes_of(g) : cs = n.at
    BY <1>2
  <2>2. n \in g.nodes \/ \E e \in g.edges : n = e.from \/ n = e.to
    BY DEF nodes_of
  <2>3. NodeOK(f, n)
    BY <2>2 DEF GraphOK, EdgeOK
  <2> QED BY <2>1, <2>3 DEF NodeOK, StringOK
<1> QED BY <1>1, <1>2 DEF mentioned_call_string

(***************************************************************************)
(* The call strings of a graph are real, whatever the program.             *)
(***************************************************************************)
THEOREM Strings == Spec => []CallStringsReal
<1>1. CInv => CallStringsReal
  BY GraphStrings DEF CInv, Graphs, CallStringsReal
<1> QED BY <1>1, InitCInv, CInvStep, PTL DEF Spec

(***************************************************************************)
(* The resolver finds the function that a call string of an SPDG ends in,  *)
(* if calls name what is replaced.                                         *)
(***************************************************************************)
THEOREM Resolving == Spec /\ NamesCallee => []CallStringsResolve
<1>1. CInv /\ NamesCallee => CallStringsResolve
  <2> SUFFICES ASSUME CInv, NamesCallee PROVE CallStringsResolve
    OBVIOUS
  <2>1. CallStringsReal
    BY GraphStrings DEF CInv, Graphs, CallStringsReal
  <2>2. program \in Programs
    BY DEF CInv, SInv, IInv, Frames
  <2>3. ASSUME NEW t \in DOMAIN spdgs, NEW cs \in mentioned_call_string(spdgs[t])
        PROVE  root(cs).function = t /\ (through_shim(cs) \/ resolve(t, cs) = leaf(cs).function)
    <3>1. t \in Fn /\ SpdgGraph(t, spdgs[t])
      BY DEF CInv, Spdgs
    <3>2. SpdgString(t, cs)
      BY <3>1 DEF mentioned_call_string, SpdgGraph, SpdgNode
    <3>3. determine_async(t) => generator(t) \in Fn
      BY <2>2, ProgramsAssumption DEF determine_async, generator, code
    <3> QED BY <2>2, <3>1, <3>2, <3>3, Resolves
  <2> QED BY <2>1, <2>3 DEF CallStringsResolve
<1>2. CInv /\ NamesCallee /\ [Next]_vars => NamesCallee'
  <2> SUFFICES ASSUME CInv, NamesCallee, [Next]_vars PROVE NamesCallee'
    OBVIOUS
  <2>1. program' = program
    BY CacheKept DEF CInv
  <2> QED BY <2>1, ProgramKept DEF NamesCallee
<1> QED BY <1>1, <1>2, InitCInv, CInvStep, PTL DEF Spec

-----------------------------------------------------------------------------
(***************************************************************************)
(* The types of the nodes.                                                 *)
(***************************************************************************)
LEMMA SameCache ==
    /\ T!Cache!Empty <=> Memo!Empty
    /\ \A t \in Ty : /\ T!Cache!Query(t) <=> Memo!Query(t)
                     /\ T!Cache!read(t) = Memo!read(t)
    /\ T!Cache!Computing <=> Memo!Computing
<1>1. T!Cache!Empty <=> Memo!Empty
  BY DEF T!Cache!Empty, Memo!Empty
<1>2. \A t : T!Cache!deps(t) = Memo!deps(t) /\ T!Cache!read(t) = Memo!read(t)
             /\ (T!Cache!start(t) <=> Memo!start(t))
  BY DEF T!Cache!deps, Memo!deps, T!Cache!Successors, Memo!Successors, T!Cache!read, Memo!read,
         T!Cache!start, Memo!start
<1>3. \A t, x : T!Cache!Compute(t, x) <=> Memo!Compute(t, x)
  BY <1>2 DEF T!Cache!Compute, Memo!Compute
<1>4. \A t \in Ty : T!Cache!Query(t) <=> Memo!Query(t)
  BY <1>2, <1>3 DEF T!Cache!Query, Memo!Query
<1>5. T!Cache!Computing <=> Memo!Computing
  <2>1. \A d \in Ty : T!Cache!Ask(d) <=> Memo!Ask(d)
    BY <1>2, <1>3 DEF T!Cache!Ask, Memo!Ask, T!Cache!top, Memo!top
  <2>2. T!Cache!Return <=> Memo!Return
    BY DEF T!Cache!Return, Memo!Return, T!Cache!top, Memo!top
  <2> QED BY <2>1, <2>2 DEF T!Cache!Computing, Memo!Computing
<1> QED BY <1>1, <1>2, <1>4, <1>5

\* What the cache gathers is what a type has inside.
LEMMA Inside ==
    ASSUME types \in TypeSystems, type_graph = T!type_graph(types), NEW t \in Ty
    PROVE  /\ Memo!Transitive(t) = T!MarkedSubtypes(t)
           /\ Memo!ReachesCycle(t) <=> T!Recursive(t)
<1>1. /\ types.kind \in [Ty -> {"Adt", "Compound", "Alias", "Leaf"}]
      /\ types.parts \in SUBSET (Ty \X Ty) /\ types.marked \subseteq Ty
  BY TypeSystemsAssumption DEF T!TypeSystem
<1>2. type_graph.deps = T!HasInside
  <2>1. type_graph.deps = {e \in types.parts : types.kind[e[1]] \in {"Adt", "Compound"}}
    BY DEF T!type_graph, T!looked_into
  <2>2. T!HasInside = {e \in types.parts : e[1] \notin {s \in Ty : types.kind[s] \in {"Alias", "Leaf"}}}
    BY DEF T!HasInside, T!CutAfter
  <2>3. ASSUME NEW e \in types.parts
        PROVE  types.kind[e[1]] \in {"Adt", "Compound"}
                 <=> e[1] \notin {s \in Ty : types.kind[s] \in {"Alias", "Leaf"}}
    BY <1>1
  <2> QED BY <2>1, <2>2, <2>3
<1>3. \A a, b : Memo!DependsOn(a, b) <=> T!Reaches(Ty, T!HasInside, a, b)
  BY <1>2 DEF Memo!DependsOn, Memo!Reaches, T!Reaches, Memo!ClosedUnder, T!ClosedUnder
<1>4. \A c : Memo!deps(c) = T!Successors(Ty, T!HasInside, c)
  BY <1>2 DEF Memo!deps, Memo!Successors, T!Successors
<1>5. \A s \in Ty : type_graph.own[s] =
            IF s \in types.marked /\ types.kind[s] = "Adt" THEN {s} ELSE {}
  BY DEF T!type_graph, T!own
<1>6. Memo!Transitive(t) = T!MarkedSubtypes(t)
  <2>1. ASSUME NEW s PROVE s \in Memo!Transitive(t) <=> s \in T!MarkedSubtypes(t)
    <3>1. s \in Memo!Transitive(t) <=> \E d \in Ty : Memo!DependsOn(t, d) /\ s \in type_graph.own[d]
      BY DEF Memo!Transitive
    <3>2. s \in T!MarkedSubtypes(t) <=>
            s \in types.marked /\ types.kind[s] = "Adt" /\ T!Reaches(Ty, T!HasInside, t, s)
      BY DEF T!MarkedSubtypes
    <3> QED BY <1>1, <1>3, <1>5, <3>1, <3>2
  <2> QED BY <2>1
<1>7. Memo!ReachesCycle(t) <=> T!Recursive(t)
  BY <1>3, <1>4 DEF Memo!ReachesCycle, T!Recursive
<1> QED BY <1>6, <1>7

TypesTyped ==
    /\ types \in TypeSystems
    /\ type_graph = T!type_graph(types)
    /\ type_node \subseteq TyNode
    /\ type_handled \subseteq TyNode
    /\ node_types \in [TyNode -> SUBSET Ty]

TInv == TypesTyped /\ Memo!IInv /\ T!NodeTypesRight

LEMMA InitTInv == Init => TInv
<1> SUFFICES ASSUME Init PROVE TInv
  OBVIOUS
<1>1. types \in TypeSystems /\ T!NothingHandled
  BY DEF Init, NothingGenerated
<1>2. TypesTyped
  BY <1>1 DEF TypesTyped, T!NothingHandled
<1>3. Memo!Empty
  BY <1>1, SameCache DEF T!NothingHandled
<1>4. Memo!Init
  BY <1>1, <1>3 DEF Memo!Init, T!NothingHandled
<1>5. Memo!IInv
  BY <1>4, InputsAreGraphs, Memo!InitIInv
<1>6. T!NodeTypesRight
  BY <1>1 DEF T!NodeTypesRight, T!NothingHandled
<1> QED BY <1>2, <1>5, <1>6 DEF TInv

LEMMA TypesKept ==
    ASSUME types' = types
    PROVE  /\ \A t : T!MarkedSubtypes(t)' = T!MarkedSubtypes(t)
           /\ \A t : T!shallow_type_markers(t)' = T!shallow_type_markers(t)
           /\ \A t : T!Recursive(t)' <=> T!Recursive(t)
<1>1. T!HasInside' = T!HasInside
  BY DEF T!HasInside
<1> QED BY <1>1 DEF T!MarkedSubtypes, T!shallow_type_markers, T!Recursive

\* A step of the cache.
LEMMA CacheStep ==
    ASSUME TInv, Memo!Computing \/ (\E t \in Ty : Memo!Query(t)),
           UNCHANGED <<types, type_handled, node_types>>, type_node' = type_node
    PROVE  TInv'
<1>1. [Memo!Next]_(Memo!vars)
  BY DEF Memo!Next
<1>2. Memo!IInv'
  BY <1>1, InputsAreGraphs, Memo!IInvStep DEF TInv
<1>3. type_graph' = type_graph
  BY DEF Memo!Query, Memo!Computing, Memo!Ask, Memo!Return
<1>4. TypesTyped'
  BY <1>3 DEF TInv, TypesTyped, T!type_graph, T!own, T!looked_into
<1>5. T!NodeTypesRight'
  BY TypesKept DEF TInv, T!NodeTypesRight
<1> QED BY <1>2, <1>4, <1>5 DEF TInv

LEMMA IdleTInv ==
    ASSUME TInv, UNCHANGED <<types, type_graph, type_entry, type_value, type_stack, type_todo,
                             type_asked, type_handled, node_types>>, type_node' \subseteq TyNode
    PROVE  TInv'
<1>1. [Memo!Next]_(Memo!vars)
  BY DEF Memo!vars
<1>2. Memo!IInv'
  BY <1>1, InputsAreGraphs, Memo!IInvStep DEF TInv
<1>3. TypesTyped'
  BY DEF TInv, TypesTyped, T!type_graph, T!own, T!looked_into
<1>4. T!NodeTypesRight'
  BY TypesKept DEF TInv, T!NodeTypesRight
<1> QED BY <1>2, <1>3, <1>4 DEF TInv

\* What is registered for a node.
LEMMA RegisterTInv ==
    ASSUME TInv, NEW y \in TyNode, T!Register(y)
    PROVE  TInv'
<1>1. /\ type_entry[y.ty] = "Some" /\ y.ty \in Ty
      /\ node_types' = [node_types EXCEPT ![y] = T!node_types_of(y)]
      /\ type_handled' = type_handled \cup {y} /\ type_node' = {}
      /\ types' = types /\ UNCHANGED T!cache
  BY DEF T!Register, TyNode
<1>2. UNCHANGED <<type_graph, type_entry, type_value, type_stack, type_todo, type_asked>>
  BY <1>1 DEF T!cache
<1>3. TypesTyped /\ Memo!IInv /\ T!NodeTypesRight
  BY DEF TInv
<1>4. [Memo!Next]_(Memo!vars)
  BY <1>2 DEF Memo!vars
<1>5. Memo!IInv'
  BY <1>3, <1>4, InputsAreGraphs, Memo!IInvStep
<1>6. Memo!CacheSound /\ Memo!ExactOffCycles
  BY <1>3, InputsAreGraphs, Memo!Exact DEF Memo!IInv
<1>7. T!node_types_of(y) =
        type_value[y.ty] \cup (IF y.projected THEN T!shallow_type_markers(y.ty) ELSE {})
  BY <1>1, SameCache DEF T!node_types_of, Memo!read
<1>8. /\ Memo!Transitive(y.ty) = T!MarkedSubtypes(y.ty)
      /\ Memo!ReachesCycle(y.ty) <=> T!Recursive(y.ty)
  BY <1>1, <1>3, Inside DEF TypesTyped
<1>9. /\ T!node_types_of(y) \subseteq T!MarkedSubtypes(y.ty) \cup T!shallow_type_markers(y.ty)
      /\ ~T!Recursive(y.ty) => T!MarkedSubtypes(y.ty) \subseteq T!node_types_of(y)
  BY <1>1, <1>6, <1>7, <1>8 DEF Memo!CacheSound, Memo!ExactOffCycles
<1>10. T!MarkedSubtypes(y.ty) \subseteq Ty /\ T!shallow_type_markers(y.ty) \subseteq Ty
  BY <1>1, <1>3, TypeSystemsAssumption
     DEF T!MarkedSubtypes, T!shallow_type_markers, TypesTyped, T!TypeSystem
<1>11. /\ node_types' \in [TyNode -> SUBSET Ty] /\ node_types'[y] = T!node_types_of(y)
       /\ \A n \in TyNode : n # y => node_types'[n] = node_types[n]
  BY <1>1, <1>3, <1>9, <1>10 DEF TypesTyped
<1>12. TypesTyped'
  BY <1>1, <1>2, <1>3, <1>11 DEF TypesTyped, T!type_graph, T!own, T!looked_into
<1>13. T!NodeTypesRight'
  <2>1. ASSUME NEW n \in TyNode
        PROVE  node_types'[n] \subseteq T!MarkedSubtypes(n.ty) \cup T!shallow_type_markers(n.ty)
    <3>1. CASE n = y
      BY <1>9, <1>11, <3>1
    <3>2. CASE n # y
      BY <1>3, <1>11, <3>2 DEF T!NodeTypesRight
    <3> QED BY <3>1, <3>2
  <2>2. ASSUME NEW n \in type_handled', ~T!Recursive(n.ty)
        PROVE  T!MarkedSubtypes(n.ty) \subseteq node_types'[n]
    <3>1. CASE n = y
      BY <1>9, <1>11, <2>2, <3>1
    <3>2. CASE n # y
      <4>1. n \in type_handled /\ n \in TyNode
        BY <1>1, <1>3, <3>2 DEF TypesTyped
      <4> QED BY <1>3, <1>11, <2>2, <3>2, <4>1 DEF T!NodeTypesRight
    <3> QED BY <3>1, <3>2
  <2> QED BY <1>1, <2>1, <2>2, TypesKept DEF T!NodeTypesRight
<1> QED BY <1>5, <1>12, <1>13 DEF TInv

-----------------------------------------------------------------------------
\* While types are asked for, it is for the nodes of the target's SPDG.
Asking == phase = "types" => target \in DOMAIN spdgs

LEMMA NodeAsks ==
    ASSUME PlacesDeclared, NEW t, NEW n, SpdgNode(t, n), NEW y \in ty_nodes(t, n)
    PROVE  y \in TyNode
<1>1. leaf(n.at).function \in Fn /\ n.place.local \in declared(leaf(n.at).function)
  BY DEF SpdgNode
<1>2. program.ty[leaf(n.at).function][n.place.local] \in Ty
  BY <1>1 DEF PlacesDeclared
<1>3. \A ty \in place_type(t, n) : ty \in Ty
  BY <1>2 DEF place_type
<1>4. (n.place.projection # <<>>) \in BOOLEAN
  OBVIOUS
<1>5. ASSUME NEW ty \in Ty, NEW b \in BOOLEAN PROVE [ty |-> ty, projected |-> b] \in TyNode
  BY DEF TyNode
<1> QED BY <1>3, <1>4, <1>5 DEF ty_nodes

LEMMA AskedTypes ==
    ASSUME CInv, PlacesDeclared, target \in DOMAIN spdgs
    PROVE  asked_types \subseteq TyNode
<1>1. ASSUME NEW n \in spdgs[target].nodes PROVE SpdgNode(target, n)
  BY DEF CInv, Spdgs, SpdgGraph, nodes_of
<1> QED BY <1>1, NodeAsks DEF asked_types

LEMMA AskingStep == CInv /\ Asking /\ [Next]_vars => Asking'
<1> SUFFICES ASSUME CInv, Asking, [Next]_vars, phase' = "types" PROVE target' \in DOMAIN spdgs'
  BY DEF Asking
<1>1. CASE StartTarget
  BY <1>1 DEF StartTarget
<1>2. CASE ConstructStep
  BY <1>2 DEF ConstructStep
<1>3. CASE Convert
  BY <1>3 DEF Convert, target
<1>4. CASE TypeStep
  BY <1>4 DEF TypeStep, generation, Asking, target
<1>5. CASE FinishTarget
  BY <1>5 DEF FinishTarget
<1>6. CASE Describe
  BY <1>6 DEF Describe
<1>7. CASE UNCHANGED vars
  BY <1>7 DEF vars, Asking, target
<1> QED BY <1>1, <1>2, <1>3, <1>4, <1>5, <1>6, <1>7 DEF Next, Exit

LEMMA TInvStep == CInv /\ PlacesDeclared /\ Asking /\ TInv /\ [Next]_vars => TInv'
<1> SUFFICES ASSUME CInv, PlacesDeclared, Asking, TInv, [Next]_vars PROVE TInv'
  OBVIOUS
<1>1. CASE TypeStep
  <2>1. phase = "types" /\ asked_types \subseteq TyNode
    BY <1>1, AskedTypes DEF TypeStep, Asking
  <2>2. CASE T!Compute
    BY <2>2, SameCache, CacheStep DEF T!Compute
  <2>3. ASSUME NEW y \in TyNode, T!HandleNode(y) PROVE TInv'
    BY <2>3, IdleTInv DEF T!HandleNode, T!cache
  <2>4. ASSUME NEW y \in TyNode, T!Request(y) PROVE TInv'
    <3>1. y.ty \in Ty
      BY DEF TyNode
    <3> QED BY <2>4, <3>1, SameCache, CacheStep DEF T!Request
  <2>5. ASSUME NEW y \in TyNode, T!Register(y) PROVE TInv'
    BY <2>5, RegisterTInv
  <2> QED BY <1>1, <2>1, <2>2, <2>3, <2>4, <2>5 DEF TypeStep
<1>2. CASE UNCHANGED <<types, type_cache>>
  BY <1>2, IdleTInv DEF type_cache, TInv, TypesTyped
<1> QED BY <1>1, <1>2 DEF Next, StartTarget, ConstructStep, Convert, FinishTarget, Describe, Exit, vars

(***************************************************************************)
(* A node is of no type that its own does not have inside, and of all the  *)
(* marked ones when none of them is recursive, whichever targets asked for *)
(* which types before.                                                     *)
(***************************************************************************)
THEOREM NodeTypes == Spec /\ PlacesDeclared => []NodeTypesRight
<1>1. Init => Asking
  BY DEF Init, NothingGenerated, Asking
<1>2. CInv /\ PlacesDeclared /\ [Next]_vars => PlacesDeclared'
  BY CacheKept, DeclaredKept DEF CInv
<1>3. TInv => NodeTypesRight
  BY DEF TInv, NodeTypesRight
<1> QED BY <1>1, <1>2, <1>3, InitCInv, CInvStep, InitTInv, TInvStep, AskingStep, PTL DEF Spec

-----------------------------------------------------------------------------
(***************************************************************************)
(* The description.  What could not be analyzed was reported: for every    *)
(* call that the analysis has come to.                                     *)
(***************************************************************************)
Told(f, l) == reported(f, code(f)[l]) => errors

Reports ==
    /\ \A f \in built : \A l \in calls(f) : Told(f, l)
    /\ \A i \in DOMAIN stack : \A l \in calls(stack[i].fn) :
            stack[i].pass = "visit" \/ l < stack[i].at => Told(stack[i].fn, l)

LEMMA ReportsNext ==
    ASSUME program' = program, NEW tells, tells = errors',
           \A f \in Fn : entry'[f] = "Some" =>
                \A l \in calls(f) : reported(f, code(f)[l]) => tells,
           \A i \in DOMAIN stack' : \A l \in calls(stack'[i].fn) :
                stack'[i].pass = "visit" \/ l < stack'[i].at =>
                    (reported(stack'[i].fn, code(stack'[i].fn)[l]) => tells)
    PROVE  Reports'
<1>1. \A f : code(f)' = code(f) /\ calls(f)' = calls(f)
  BY ProgramKept
<1>2. \A f, c : reported(f, c)' <=> reported(f, c)
  BY DEF reported, approximated, applies
<1>3. \A f, l : Told(f, l)' <=> (reported(f, code(f)[l]) => tells)
  BY <1>1, <1>2 DEF Told
<1>4. \A f \in built' : f \in Fn /\ entry'[f] = "Some"
  BY DEF built
<1> QED BY <1>1, <1>3, <1>4 DEF Reports

LEMMA AdvanceReports ==
    ASSUME IInv, Reports, stack # <<>>, NEW fr, Advance(fr), UNCHANGED <<program, entry, pdg>>,
           fr.fn = top.fn, errors => errors',
           \A l \in calls(top.fn) : fr.pass = "visit" \/ l < fr.at =>
                (reported(top.fn, code(top.fn)[l]) => errors')
    PROVE  Reports'
<1>1. DOMAIN stack' = DOMAIN stack
  BY DEF Advance
<1>2. Len(stack) \in DOMAIN stack
  BY TopFacts DEF IInv
<1>3. \A i \in DOMAIN stack : stack'[i] = IF i = Len(stack) THEN fr ELSE stack[i]
  BY DEF Advance
<1>4. \A f \in Fn : entry'[f] = "Some" => \A l \in calls(f) : reported(f, code(f)[l]) => errors'
  BY DEF Reports, Told, built
<1>5. \A i \in DOMAIN stack' : \A l \in calls(stack'[i].fn) :
           stack'[i].pass = "visit" \/ l < stack'[i].at =>
               (reported(stack'[i].fn, code(stack'[i].fn)[l]) => errors')
  <2> SUFFICES ASSUME NEW i \in DOMAIN stack, NEW l \in calls(stack'[i].fn),
                      stack'[i].pass = "visit" \/ l < stack'[i].at,
                      reported(stack'[i].fn, code(stack'[i].fn)[l])
               PROVE  errors'
    BY <1>1
  <2>1. CASE i = Len(stack)
    BY <1>3, <2>1
  <2>2. CASE i # Len(stack)
    BY <1>3, <2>2 DEF Reports, Told
  <2> QED BY <2>1, <2>2
<1> QED BY <1>4, <1>5, ReportsNext

LEMMA ConstructReports ==
    ASSUME IInv, Reports, NEW f \in Fn, entry[f] = "absent", Construct(f)
    PROVE  Reports'
<1>1. /\ program' = program /\ pdg' = pdg /\ entry' = [entry EXCEPT ![f] = "None"]
      /\ stack' = Append(stack, Frame(f)) /\ errors' = errors /\ program \in Programs
  BY DEF Construct, IInv, Frames
<1>2. stack \in Seq({stack[i] : i \in DOMAIN stack}) /\ DOMAIN entry = Fn
  BY DEF IInv, Frames, Entries
<1> DEFINE S == {stack[i] : i \in DOMAIN stack}
           n == Len(stack)
           fr == Frame(f)
<1>3. n \in Nat /\ DOMAIN stack = 1 .. n /\ stack \in Seq(S)
  BY <1>2
<1>4. fr.fn = f /\ fr.pass = "iterate" /\ fr.at = 1
  BY DEF Frame
<1> HIDE DEF fr
<1>5. DOMAIN stack' = 1 .. n + 1 /\ \A i \in DOMAIN stack' : stack'[i] = IF i = n + 1 THEN fr ELSE stack[i]
  <2>1. stack' = Append(stack, fr) /\ stack \in Seq(S \cup {fr})
    <3>1. S \subseteq S \cup {fr}
      OBVIOUS
    <3> HIDE DEF S
    <3> QED BY <1>1, <1>3, <3>1 DEF fr
  <2> HIDE DEF S
  <2> QED BY <1>3, <2>1
<1>6. ASSUME NEW i \in DOMAIN stack', NEW l \in calls(stack'[i].fn),
             stack'[i].pass = "visit" \/ l < stack'[i].at,
             reported(stack'[i].fn, code(stack'[i].fn)[l])
      PROVE  errors'
  <2>1. CASE i = n + 1
    <3>1. l \in 1 .. Len(code(f)) /\ Len(code(f)) \in Nat
      BY <1>1, <1>4, <1>5, <2>1, CodeFacts
    <3> QED BY <1>4, <1>5, <1>6, <2>1, <3>1
  <2>2. CASE i # n + 1
    <3>1. i \in DOMAIN stack /\ stack'[i] = stack[i]
      BY <1>3, <1>5, <2>2
    <3> QED BY <1>1, <1>6, <3>1 DEF Reports, Told
  <2> QED BY <2>1, <2>2
<1>7. \A h \in Fn : entry'[h] = "Some" => \A l \in calls(h) : reported(h, code(h)[l]) => errors'
  BY <1>1, <1>2 DEF Reports, Told, built
<1> QED BY <1>1, <1>6, <1>7, ReportsNext

LEMMA FinishReports == IInv /\ Reports /\ Finish => Reports'
<1> SUFFICES ASSUME IInv, Reports, Finish PROVE Reports'
  OBVIOUS
<1>1. stack # <<>> /\ program' = program /\ errors' = errors /\ top.pass = "visit"
  BY DEF Finish, Busy
<1>2. CASE UNCHANGED <<entry, pdg, stack>>
  BY <1>1, <1>2, ReportsNext DEF Reports, Told, built
<1>3. CASE ~UNCHANGED <<entry, pdg, stack>>
  <2> DEFINE f == top.fn
             n == Len(stack)
             S == {stack[i] : i \in DOMAIN stack}
  <2>1. entry' = [entry EXCEPT ![f] = "Some"] /\ stack' = SubSeq(stack, 1, n - 1)
    BY <1>3 DEF Finish
  <2>2. /\ DOMAIN entry = Fn /\ n \in Nat /\ n # 0 /\ DOMAIN stack = 1 .. n /\ f = stack[n].fn
        /\ stack \in Seq(S) /\ top = stack[n]
    BY <1>1, TopFacts DEF IInv, Frames, Entries
  <2>3. \A l \in calls(f) : reported(f, code(f)[l]) => errors'
    <3>1. n \in DOMAIN stack /\ stack[n].pass = "visit" /\ stack[n].fn = f
      BY <1>1, <2>2
    <3> HIDE DEF n, f
    <3> QED BY <1>1, <3>1 DEF Reports, Told
  <2>4. \A h \in Fn : entry'[h] = "Some" => \A l \in calls(h) : reported(h, code(h)[l]) => errors'
    BY <1>1, <2>1, <2>2, <2>3 DEF Reports, Told, built
  <2> HIDE DEF S
  <2>5. Len(stack') = n - 1 /\ stack' \in Seq(S) /\ \A i \in 1 .. n - 1 : stack'[i] = stack[i]
    BY <1>1, <2>1, <2>2, InputsAreGraphs, Memo!Popped
  <2> HIDE DEF n
  <2>6. \A i \in DOMAIN stack' : i \in DOMAIN stack /\ stack'[i] = stack[i]
    BY <2>2, <2>5
  <2> QED BY <1>1, <2>4, <2>6, ReportsNext DEF Reports, Told
<1> QED BY <1>2, <1>3

LEMMA ConstructionReports == IInv /\ Reports /\ ConstructionStep => Reports'
<1> SUFFICES ASSUME IInv, Reports, ConstructionStep PROVE Reports'
  OBVIOUS
<1>1. CASE ConstructCallee
  <2> DEFINE f == wanted(top.fn, instruction(top))
  <2>1. stack # <<>> /\ asks(top) /\ Construct(f)
    BY <1>1 DEF ConstructCallee
  <2>2. f \in Fn /\ entry[f] = "absent"
    BY <2>1, CalleeOfTop
  <2> HIDE DEF f
  <2> QED BY <2>1, <2>2, ConstructReports
<1>2. ASSUME stack # <<>>
      PROVE  /\ DOMAIN top = {"fn", "pass", "at", "state", "graph", "handled"}
             /\ mutate(top).fn = top.fn /\ mutate(top).pass = top.pass /\ mutate(top).at = top.at + 1
             /\ DOMAIN mutate(top) = {"fn", "pass", "at", "state", "graph", "handled"}
             /\ Len(code(top.fn)) \in Nat /\ top.at \in 1 .. Len(code(top.fn)) + 1
             /\ \A l \in calls(top.fn) : /\ l \in 1 .. Len(code(top.fn))
                                         /\ code(top.fn)[l].op = "call"
             /\ \A l \in calls(top.fn) :
                    top.pass = "visit" \/ l < top.at => (reported(top.fn, code(top.fn)[l]) => errors)
  <2>1. FrameOK(top) /\ top = stack[Len(stack)] /\ Len(stack) \in DOMAIN stack /\ program \in Programs
    BY <1>2, TopFacts DEF IInv, Frames
  <2> QED BY <2>1, CodeFacts DEF FrameOK, mutate, Reports, Told
<1>3. CASE Iterate
  <2> DEFINE fr == [mutate(top) EXCEPT !.handled = Append(@, handling(top))]
  <2>1. /\ stack # <<>> /\ ~at_end(top) /\ Advance(fr) /\ UNCHANGED <<program, entry, pdg>>
        /\ top.pass = "iterate"
        /\ errors' = (errors \/ (instruction(top).op = "call" /\ reported(top.fn, instruction(top))))
    BY <1>3 DEF Iterate, Busy
  <2>2. fr.fn = top.fn /\ fr.pass = "iterate" /\ fr.at = top.at + 1
    BY <1>2, <2>1
  <2> HIDE DEF fr
  <2>3. ASSUME NEW l \in calls(top.fn), l < fr.at, reported(top.fn, code(top.fn)[l])
        PROVE  errors'
    <3>1. l = top.at \/ l < top.at
      BY <1>2, <2>1, <2>2, <2>3
    <3>2. CASE l = top.at
      BY <1>2, <2>1, <2>3, <3>2 DEF instruction
    <3>3. CASE l < top.at
      BY <1>2, <2>1, <2>3, <3>3
    <3> QED BY <3>1, <3>2, <3>3
  <2> QED BY <2>1, <2>2, <2>3, AdvanceReports
<1>4. CASE Fixpoint
  <2> DEFINE fr == [top EXCEPT !.pass = "visit", !.at = 1, !.state = {}]
  <2>1. /\ stack # <<>> /\ at_end(top) /\ Advance(fr) /\ UNCHANGED <<program, entry, pdg>>
        /\ errors' = errors
    BY <1>4 DEF Fixpoint, Busy
  <2>2. fr.fn = top.fn
    BY <1>2, <2>1
  <2> HIDE DEF fr
  <2>3. ASSUME NEW l \in calls(top.fn), reported(top.fn, code(top.fn)[l])
        PROVE  errors'
    <3>1. l < top.at
      BY <1>2, <2>1 DEF at_end
    <3> QED BY <1>2, <2>1, <2>3, <3>1
  <2> QED BY <2>1, <2>2, <2>3, AdvanceReports
<1>5. CASE Visit
  <2> DEFINE fr == [mutate(top) EXCEPT
            !.graph = Join(@, visited(top.fn, instruction(top), top.state, here(top)))]
  <2>1. /\ stack # <<>> /\ ~at_end(top) /\ Advance(fr) /\ UNCHANGED <<program, entry, pdg>>
        /\ top.pass = "visit" /\ errors' = errors
    BY <1>5 DEF Visit, Busy
  <2>2. fr.fn = top.fn /\ fr.pass = "visit"
    BY <1>2, <2>1
  <2> HIDE DEF fr
  <2> QED BY <1>2, <2>1, <2>2, AdvanceReports
<1> QED BY <1>1, <1>3, <1>4, <1>5, FinishReports DEF ConstructionStep

-----------------------------------------------------------------------------
\* A marker is looked up for the function that has it.
Carries(F, m) == \E f \in F \cap Fn : \E a \in combined_markers(f) : a.marker = m

LEMMA OfFunction ==
    ASSUME program \in Programs, NEW f \in Fn, NEW a \in annotations(f)
    PROVE  Carries({f} \cup ({get_parent(f)} \ {None}), a.marker)
<1>1. get_parent(f) \in Fn \cup {None}
  BY CrateAssumption DEF get_parent
<1>2. a \in combined_markers(f) \/ (get_parent(f) # None /\ a \in combined_markers(get_parent(f)))
  BY DEF annotations
<1> QED BY <1>1, <1>2 DEF Carries

LEMMA CalledFunction ==
    ASSUME program \in Programs, NEW at, at.function \in Fn, NEW c \in calls_at(at)
    PROVE  called(c) \in Fn
<1>1. at.location \in DOMAIN code(at.function) /\ c = code(at.function)[at.location] /\ c.op = "call"
  BY DEF calls_at
<1>2. c.callee \in Fn \cup {None} /\ c.def \in Fn
  BY <1>1, ProgramsAssumption DEF code
<1> QED BY <1>2 DEF called

LEMMA LookedUp ==
    ASSUME program \in Programs, NEW g, NEW n, leaf(n.at).function \in Fn,
           NEW m \in node_annotations(g, n)
    PROVE  Carries(looked_up(n), m)
<1> DEFINE at == leaf(n.at)
           f == at.function
           own == \/ at.location = Start /\ is_arg(f, n.place)
                  \/ at.location = End /\ n.place.local = RETURN_PLACE
           F == IF own THEN {f} ELSE {called(c) : c \in calls_at(at)}
<1>1. looked_up(n) = F \cup ({get_parent(h) : h \in F} \ {None})
  BY DEF looked_up
<1>2. ASSUME NEW h \in F, h \in Fn, NEW a \in annotations(h), m = a.marker
      PROVE  Carries(looked_up(n), m)
  <2>1. Carries({h} \cup ({get_parent(h)} \ {None}), m)
    BY <1>2, OfFunction
  <2> HIDE DEF F
  <2>2. {h} \cup ({get_parent(h)} \ {None}) \subseteq looked_up(n)
    BY <1>1
  <2> QED BY <2>1, <2>2 DEF Carries
<1>3. CASE own
  <2>1. f \in F /\ f \in Fn
    BY <1>3
  <2>2. \E a \in annotations(f) : m = a.marker
    <3>1. node_annotations(g, n) = on_argument(f, n.place.local - 1)
            \/ node_annotations(g, n) = on_return(f)
      BY <1>3 DEF node_annotations
    <3> QED BY <3>1 DEF on_argument, on_return
  <2> HIDE DEF F, f
  <2> QED BY <1>2, <2>1, <2>2
<1>4. CASE ~own
  <2>1. node_annotations(g, n) = UNION {
                (IF needs_return_markers(g, n) THEN on_return(called(c)) ELSE {}) \cup
                UNION {on_argument(called(c), e.source_use[2]) :
                        e \in {e \in out_edges(g, n) : e.source_use[1] = "Argument"}} :
                c \in calls_at(at)}
    BY <1>4 DEF node_annotations
  <2>2. PICK c \in calls_at(at) :
            \/ m \in on_return(called(c))
            \/ \E e \in out_edges(g, n) : m \in on_argument(called(c), e.source_use[2])
    BY <2>1
  <2>3. \E a \in annotations(called(c)) : m = a.marker
    BY <2>2 DEF on_return, on_argument
  <2>4. called(c) \in F /\ called(c) \in Fn
    BY <1>4, <2>2, CalledFunction
  <2> HIDE DEF F
  <2> QED BY <1>2, <2>3, <2>4
<1> QED BY <1>3, <1>4

\* What the description is made of.
Looked ==
    \A t \in DOMAIN spdgs : \A n \in spdgs[t].nodes :
        \A m \in spdgs[t].markers[n] : Carries(known_def_ids, m)

Elements(s) == {s[i] : i \in DOMAIN s}

\* The targets are those that are through and those in the queue.
Targets ==
    /\ DOMAIN spdgs \cup Elements(queue) = Elements(functions_to_analyze(program))
    /\ phase \in {"describe", "written", "aborted"} => queue = <<>>

Described ==
    phase = "written" =>
        /\ ~errors
        /\ description.instruction_info = collect_instruction_info
        /\ description.def_info =
                known_def_ids \cup {l.function : l \in collect_instruction_info} \cup types.marked
        /\ description.type_info = types.marked

DInv == Reports /\ Looked /\ Targets /\ Described

LEMMA InitDInv == Init => DInv
<1> SUFFICES ASSUME Init PROVE DInv
  OBVIOUS
<1>1. /\ entry = [f \in Fn |-> "absent"] /\ stack = <<>> /\ spdgs = [t \in {} |-> {}]
      /\ queue = functions_to_analyze(program) /\ phase = "construct"
  BY DEF Init, NothingGenerated, NothingConstructed
<1>2. built = {} /\ DOMAIN stack = {} /\ DOMAIN spdgs = {}
  BY <1>1 DEF built
<1>3. Reports /\ Looked
  BY <1>2 DEF Reports, Looked
<1>4. Targets /\ Described
  BY <1>1, <1>2 DEF Targets, Described
<1> QED BY <1>3, <1>4 DEF DInv

LEMMA CarriesKept ==
    ASSUME program' = program, NEW F, NEW G, F \subseteq G, NEW m, Carries(F, m)
    PROVE  Carries(G, m)'
<1>1. \A f : combined_markers(f)' = combined_markers(f)
  BY DEF combined_markers, defid_rewrite, async_fns_of, generator, code
<1> QED BY <1>1 DEF Carries

LEMMA LookedNext ==
    ASSUME program' = program,
           known_def_ids \subseteq known_def_ids',
           \A t \in DOMAIN spdgs' : \A n \in spdgs'[t].nodes :
                \A m \in spdgs'[t].markers[n] :
                    Carries(known_def_ids, m) \/ Carries(known_def_ids', m)
    PROVE  Looked'
<1> SUFFICES ASSUME NEW t \in DOMAIN spdgs', NEW n \in spdgs'[t].nodes, NEW m \in spdgs'[t].markers[n]
             PROVE  Carries(known_def_ids, m)'
  BY DEF Looked
<1> DEFINE K == known_def_ids'
<1>1. \E F : F \subseteq K /\ Carries(F, m)
  OBVIOUS
<1>2. ASSUME NEW G, G = known_def_ids' PROVE Carries(G, m)'
  BY <1>1, <1>2, CarriesKept
<1> QED BY <1>2

LEMMA QueueFacts ==
    ASSUME queue \in Seq(Fn), queue # <<>>
    PROVE  Elements(queue) = {target} \cup Elements(Tail(queue))
<1>1. /\ Len(queue) \in Nat /\ Len(queue) # 0 /\ target = queue[1] /\ Tail(queue) \in Seq(Fn)
      /\ Len(Tail(queue)) = Len(queue) - 1
      /\ \A i \in 1 .. Len(queue) - 1 : Tail(queue)[i] = queue[i + 1]
      /\ DOMAIN queue = 1 .. Len(queue) /\ DOMAIN Tail(queue) = 1 .. Len(queue) - 1
  BY DEF target
<1>2. \A i \in DOMAIN queue : i = 1 \/ (i - 1 \in DOMAIN Tail(queue) /\ queue[i] = Tail(queue)[i - 1])
  BY <1>1
<1>3. \A i \in DOMAIN Tail(queue) : i + 1 \in DOMAIN queue /\ Tail(queue)[i] = queue[i + 1]
  BY <1>1
<1>4. 1 \in DOMAIN queue /\ queue[1] = target
  BY <1>1
<1>5. ASSUME NEW x \in Elements(queue) PROVE x \in {target} \cup Elements(Tail(queue))
  BY <1>2, <1>4 DEF Elements
<1>6. ASSUME NEW x \in Elements(Tail(queue)) PROVE x \in Elements(queue)
  BY <1>3 DEF Elements
<1>7. target \in Elements(queue)
  BY <1>4 DEF Elements
<1> HIDE DEF target
<1> QED BY <1>5, <1>6, <1>7

LEMMA DInvStep == CInv /\ Asking /\ DInv /\ [Next]_vars => DInv'
<1> SUFFICES ASSUME CInv, Asking, DInv, [Next]_vars PROVE DInv'
  OBVIOUS
<1>1. /\ SInv /\ IInv /\ Graphs /\ Spdgs /\ program \in Programs /\ queue \in Seq(Fn)
      /\ Reports /\ Looked /\ Targets /\ Described
  BY DEF CInv, SInv, IInv, Frames, QueueOK, DInv
<1>2. program' = program
  BY <1>1, CacheKept
<1>3. functions_to_analyze(program)' = functions_to_analyze(program)
  BY <1>2
<1>4. ASSUME UNCHANGED construction_vars PROVE Reports'
  <2>1. entry' = entry /\ stack' = stack /\ errors' = errors
    BY <1>4 DEF construction_vars
  <2> QED BY <1>1, <1>2, <2>1, ReportsNext DEF Reports, Told, built
<1>5. ASSUME spdgs' = spdgs, known_def_ids \subseteq known_def_ids' PROVE Looked'
  BY <1>1, <1>2, <1>5, LookedNext DEF Looked
<1>6. CASE StartTarget
  <2>1. /\ queue # <<>> /\ entry[root_of(target)] = "absent" /\ Construct(root_of(target))
        /\ UNCHANGED generation /\ phase' = phase /\ phase = "construct"
    BY <1>6 DEF StartTarget, ConstructRoot
  <2>2. root_of(target) \in Fn
    BY <1>1, <2>1, RootOfTarget
  <2>3. Reports'
    BY <1>1, <2>1, <2>2, ConstructReports
  <2>4. Looked' /\ Targets' /\ Described'
    BY <1>1, <1>3, <1>5, <2>1 DEF Targets, Described, generation
  <2> QED BY <2>3, <2>4 DEF DInv
<1>7. CASE ConstructStep
  <2>1. /\ ConstructionStep /\ UNCHANGED generation /\ phase = "construct"
        /\ phase' \in {"construct", "panicked"}
    BY <1>7 DEF ConstructStep
  <2>2. Reports'
    BY <1>1, <2>1, ConstructionReports
  <2>3. Looked' /\ Targets' /\ Described'
    BY <1>1, <1>3, <1>5, <2>1 DEF Targets, Described, generation
  <2> QED BY <2>2, <2>3 DEF DInv
<1>8. CASE Convert
  <2> DEFINE g == construct_graph(target)
             s == SPDG(target, g)
  <2>1. /\ phase' = "types" /\ queue # <<>> /\ entry[root_of(target)] = "Some"
        /\ queue' = queue /\ UNCHANGED construction_vars
        /\ spdgs' = [t \in DOMAIN spdgs \cup {target} |-> IF t = target THEN s ELSE spdgs[t]]
        /\ known_def_ids' = known_def_ids \cup UNION {looked_up(n) : n \in nodes_of(g)}
    BY <1>8 DEF Convert
  <2>2. target \in Fn /\ root_of(target) \in built
    BY <1>1, <2>1, RootOfTarget DEF target, built
  <2>3. SpdgGraph(target, g)
    BY <1>1, <2>2, ConstructedGraph
  <2>4. s.nodes = nodes_of(g) /\ \A n \in nodes_of(g) : s.markers[n] = node_annotations(g, n)
    BY DEF SPDG
  <2> HIDE DEF g, s
  <2>5. ASSUME NEW n \in s.nodes, NEW m \in s.markers[n] PROVE Carries(known_def_ids', m)
    <3>1. leaf(n.at).function \in Fn
      BY <2>3, <2>4 DEF SpdgGraph, SpdgNode
    <3>2. Carries(looked_up(n), m)
      BY <1>1, <2>4, <3>1, LookedUp
    <3>3. looked_up(n) \subseteq known_def_ids'
      BY <2>1, <2>4
    <3> QED BY <3>2, <3>3 DEF Carries
  <2>6. Looked'
    <3>1. ASSUME NEW t \in DOMAIN spdgs', NEW n \in spdgs'[t].nodes, NEW m \in spdgs'[t].markers[n]
          PROVE  Carries(known_def_ids, m) \/ Carries(known_def_ids', m)
      <4>1. CASE t = target
        BY <2>1, <2>5, <3>1, <4>1
      <4>2. CASE t # target
        BY <1>1, <2>1, <3>1, <4>2 DEF Looked
      <4> QED BY <4>1, <4>2
    <3>2. known_def_ids \subseteq known_def_ids'
      BY <2>1
    <3> QED BY <1>2, <3>1, <3>2, LookedNext
  <2>7. Targets'
    <3>1. target \in Elements(queue)
      BY <1>1, <2>1, QueueFacts
    <3>2. DOMAIN spdgs' = DOMAIN spdgs \cup {target}
      BY <2>1
    <3> QED BY <1>1, <1>3, <2>1, <3>1, <3>2 DEF Targets
  <2>8. Described'
    BY <2>1 DEF Described
  <2> QED BY <1>4, <2>1, <2>6, <2>7, <2>8 DEF DInv
<1>9. CASE TypeStep
  <2>1. phase = "types" /\ phase' = phase /\ UNCHANGED generation /\ UNCHANGED construction_vars
    BY <1>9 DEF TypeStep
  <2>2. Looked' /\ Targets' /\ Described'
    BY <1>1, <1>3, <1>5, <2>1 DEF Targets, Described, generation
  <2> QED BY <1>4, <2>1, <2>2 DEF DInv
<1>10. CASE FinishTarget
  <2>1. /\ phase = "types" /\ queue' = Tail(queue) /\ queue # <<>>
        /\ phase' = IF Tail(queue) = <<>> THEN "describe" ELSE "construct"
        /\ UNCHANGED construction_vars /\ spdgs' = spdgs /\ known_def_ids \subseteq known_def_ids'
    BY <1>10 DEF FinishTarget, CInv, SInv, QueueOK
  <2>2. target \in DOMAIN spdgs /\ Elements(queue) = {target} \cup Elements(Tail(queue))
    BY <1>1, <2>1, QueueFacts DEF Asking
  <2>3. Targets'
    BY <1>1, <1>3, <2>1, <2>2 DEF Targets
  <2>4. Described'
    BY <2>1 DEF Described
  <2> QED BY <1>4, <1>5, <2>1, <2>3, <2>4 DEF DInv
<1>11. CASE Describe
  <2>1. /\ UNCHANGED construction_vars /\ spdgs' = spdgs /\ known_def_ids' = known_def_ids
        /\ queue' = queue /\ types' = types /\ queue = <<>>
        /\ phase' = IF errors THEN "aborted" ELSE "written"
        /\ description' =
            [instruction_info |-> collect_instruction_info,
             def_info |-> known_def_ids \cup {l.function : l \in collect_instruction_info}
                            \cup types.marked,
             type_info |-> types.marked]
    BY <1>1, <1>11 DEF Describe, Targets
  <2>2. collect_instruction_info' = collect_instruction_info
    BY <2>1 DEF collect_instruction_info
  <2>3. errors' = errors
    BY <2>1 DEF construction_vars
  <2>4. Targets'
    BY <1>1, <1>3, <2>1 DEF Targets
  <2>5. Described'
    BY <2>1, <2>2, <2>3 DEF Described
  <2> QED BY <1>4, <1>5, <2>1, <2>4, <2>5 DEF DInv
<1>12. CASE UNCHANGED vars
  <2>1. /\ UNCHANGED construction_vars /\ UNCHANGED generation /\ phase' = phase /\ types' = types
    BY <1>12 DEF vars, generation
  <2>2. Looked' /\ Targets'
    BY <1>1, <1>3, <1>5, <2>1 DEF Targets, generation
  <2>3. Described'
    <3>1. collect_instruction_info' = collect_instruction_info
      BY <2>1 DEF collect_instruction_info, generation
    <3> QED BY <1>1, <2>1, <3>1 DEF Described, generation, construction_vars
  <2> QED BY <1>4, <2>1, <2>2, <2>3 DEF DInv
<1> QED BY <1>6, <1>7, <1>8, <1>9, <1>10, <1>11, <1>12 DEF Next, Exit

-----------------------------------------------------------------------------
\* Discovery selects the functions that are to be analyzed.
Discovered == Elements(functions_to_analyze(program)) = program.analyze

(***************************************************************************)
(* A written description has all that policies look up, and none is        *)
(* written after an error.                                                 *)
(***************************************************************************)
THEOREM Describing == Spec /\ PlacesDeclared /\ Discovered => []DescriptionComplete
<1>1. CInv /\ PlacesDeclared /\ Discovered /\ TInv /\ DInv => DescriptionComplete
  <2> SUFFICES ASSUME CInv, PlacesDeclared, Discovered, TInv, DInv, phase = "written"
               PROVE  /\ ~\E f \in built : \E l \in calls(f) : reported(f, code(f)[l])
                      /\ DOMAIN spdgs = program.analyze
                      /\ \A t \in DOMAIN spdgs :
                          /\ needs_info(spdgs[t]) \subseteq description.instruction_info
                          /\ {l.function : l \in needs_info(spdgs[t])} \subseteq description.def_info
                          /\ \A n \in spdgs[t].nodes :
                              /\ type_assigns(t, n) \subseteq description.type_info \cap description.def_info
                              /\ \A m \in spdgs[t].markers[n] : \E f \in description.def_info \cap Fn :
                                      \E a \in combined_markers(f) : a.marker = m
    BY DEF DescriptionComplete
  <2>1. /\ ~errors
        /\ description.instruction_info = collect_instruction_info
        /\ description.def_info =
                known_def_ids \cup {l.function : l \in collect_instruction_info} \cup types.marked
        /\ description.type_info = types.marked
    BY DEF DInv, Described
  <2>2. ~\E f \in built : \E l \in calls(f) : reported(f, code(f)[l])
    BY <2>1 DEF DInv, Reports, Told
  <2>3. DOMAIN spdgs = program.analyze
    <3>1. queue = <<>>
      BY DEF DInv, Targets
    <3>2. Elements(queue) = {}
      BY <3>1 DEF Elements
    <3> QED BY <3>2 DEF DInv, Targets, Discovered
  <2>4. ASSUME NEW t \in DOMAIN spdgs PROVE needs_info(spdgs[t]) \subseteq collect_instruction_info
    BY DEF needs_info, collect_instruction_info
  <2>5. ASSUME NEW t \in DOMAIN spdgs, NEW n \in spdgs[t].nodes
        PROVE  type_assigns(t, n) \subseteq types.marked
    <3>1. SpdgNode(t, n)
      BY DEF CInv, Spdgs, SpdgGraph, nodes_of
    <3>2. ASSUME NEW y \in ty_nodes(t, n) PROVE y \in TyNode
      BY <3>1, NodeAsks
    <3>3. ASSUME NEW y \in TyNode PROVE node_types[y] \subseteq types.marked
      <4>1. node_types[y] \subseteq T!MarkedSubtypes(y.ty) \cup T!shallow_type_markers(y.ty)
        BY DEF TInv, T!NodeTypesRight
      <4> QED BY <4>1 DEF T!MarkedSubtypes, T!shallow_type_markers
    <3> QED BY <3>2, <3>3 DEF type_assigns
  <2>6. ASSUME NEW t \in DOMAIN spdgs, NEW n \in spdgs[t].nodes, NEW m \in spdgs[t].markers[n]
        PROVE  \E f \in description.def_info \cap Fn : \E a \in combined_markers(f) : a.marker = m
    BY <2>1 DEF DInv, Looked, Carries
  <2> QED BY <2>1, <2>2, <2>3, <2>4, <2>5, <2>6
<1>2. CInv /\ PlacesDeclared /\ Discovered /\ [Next]_vars => PlacesDeclared' /\ Discovered'
  <2> SUFFICES ASSUME CInv, PlacesDeclared, Discovered, [Next]_vars
               PROVE  PlacesDeclared' /\ Discovered'
    OBVIOUS
  <2>1. program' = program
    BY CacheKept DEF CInv
  <2> QED BY <2>1, DeclaredKept DEF Discovered
<1>3. Init => Asking
  BY DEF Init, NothingGenerated, Asking
<1> QED BY <1>1, <1>2, <1>3, InitCInv, CInvStep, InitTInv, TInvStep, AskingStep,
           InitDInv, DInvStep, PTL DEF Spec

-----------------------------------------------------------------------------
(***************************************************************************)
(* The markers.  What the converter reads a node's markers from are the    *)
(* edges, which have to tell of it what the program says (NodeTold): that  *)
(* it is what a call returns, and which arguments it is.  Two premises.    *)
(*                                                                         *)
(* CallsApart: of what a call is given, nothing is behind a reference,     *)
(* everything has been written before, and only one of overlapping places  *)
(* is anybody's argument; nobody borrows what it returns in.  Otherwise an *)
(* edge goes into or comes out of another node than the place's own, or    *)
(* none does, and a node without edges into it passes for a return value   *)
(* (needs_return_markers).                                                 *)
(*                                                                         *)
(* CallsMarked: the calls of the desugaring of async functions have no     *)
(* markers, and neither have the arguments of inlined calls, unless what   *)
(* is written there is nobody's argument later.  Otherwise the node of     *)
(* what was written there gets the markers of the arguments of the one     *)
(* function for what it is to the other: node_annotations compares no      *)
(* locations for arguments.                                                *)
(***************************************************************************)
\* The assignment that an instruction is, or stands for.
rvalue_of(f, i) == IF i.op = "assign" THEN i.rvalue ELSE approximation(f, i)
is_assignment(f, i) == i.op = "assign" \/ (i.op = "call" /\ stands_in(f, i))

\* Instruction i leaves something in local x, if the functions of R return.
leaves(R, f, i, x) ==
    /\ i.dest = Local(x)
    /\ is_assignment(f, i) =>
        \E m \in visit_assign(i.dest, rvalue_of(f, i)) : m.mutated \in aliases(code(f), m.mutated)
    /\ i.op = "call" /\ wanted(f, i) # None => wanted(f, i) \in R

\* The functions that return something, through whatever they call.
return_by(R) == \A f \in R : \E l \in DOMAIN code(f) : leaves(R, f, code(f)[l], RETURN_PLACE)
returning == UNION {R \in SUBSET Fn : return_by(R)}

\* Place p has been written when f comes to l.
filled(f, l, p) ==
    \/ is_arg(f, p)
    \/ p.projection = <<>> /\ \E k \in 1 .. l - 1 : leaves(returning, f, code(f)[k], p.local)

\* The locals through which an inlined call may write.
borrowed(f, x) == {x} \cup {q.local : q \in borrows(code(f), x)}
operands_of(f, c) == passed(calling_convention(f, c), program.argc[wanted(f, c)]) \ {None}
written(f, c) == {c.dest.local} \cup UNION {borrowed(f, op.local) : op \in operands_of(f, c)}

\* A place that is not behind a reference.
plain(f, p) == ~is_indirect(p) /\ aliases(code(f), p) = {p}

CallApart(f, l) ==
    LET c == code(f)[l]
    IN  /\ c.dest # None /\ borrows(code(f), c.dest.local) = {}
        /\ \A a \in places(c.args) :
            plain(f, a) /\ filled(f, l, a) /\ c.dest.local \notin borrowed(f, a.local)
        /\ wanted(f, c) # None =>
            \A op \in operands_of(f, c) : c.dest.local \notin borrowed(f, op.local)
        /\ \A k \in calls(f) : \A a \in places(code(f)[k].args), p \in places(c.args) \cup {c.dest} :
                is_conflict(f, p, a) => p = a

CallsApart == \A f \in Fn : \A l \in calls(f) : CallApart(f, l)

unmarked_arguments(c) == \A a \in annotations(called(c)) : a.on_argument = {}

CallMarked(f, l) ==
    LET c == code(f)[l]
    IN  /\ stands_in(f, c) => annotations(called(c)) = {}
        /\ wanted(f, c) # None =>
            \/ unmarked_arguments(c)
            \/ \A k \in calls(f) : k > l =>
                    \A a \in places(code(f)[k].args) : a.local \notin written(f, c)

CallsMarked == \A f \in Fn : \A l \in calls(f) : CallMarked(f, l)

\* The edge goes into a future.
into_future(e) == \E d \in calls_at(leaf(e.at)) : stands_in(leaf(e.at).function, d)

ArgumentsTold(g, n, c) ==
    /\ \A i \in DOMAIN c.args : c.args[i] = n.place =>
            \E e \in out_edges(g, n) : e.source_use = Argument(i - 1)
    /\ \A e \in out_edges(g, n) : e.source_use[1] = "Argument" =>
            \/ \E i \in DOMAIN c.args : c.args[i] = n.place /\ e.source_use = Argument(i - 1)
            \/ into_future(e)

CallTold(g, n, f, c) ==
    /\ needs_return_markers(g, n) <=> n.place.local = c.dest.local
    /\ is_inlined(g, n.at) =>
        /\ wanted(f, c) # None /\ n.place.local \in written(f, c)
        /\ \A e \in out_edges(g, n) : e.source_use[1] = "Argument" =>
            unmarked_arguments(c) \/ into_future(e)
    /\ ~is_inlined(g, n.at) =>
        /\ n.place \in places(c.args) \cup {c.dest}
        /\ ArgumentsTold(g, n, c)

NodeTold(g, n) ==
    LET at == leaf(n.at)
    IN  /\ at.location = Start => is_arg(at.function, n.place)
        /\ \A c \in calls_at(at) : ~stands_in(at.function, c) => CallTold(g, n, at.function, c)

GraphTold(g) == \A n \in nodes_of(g) : NodeTold(g, n)

\* Only what was visited is in the graph of a frame, and all that it left is there.
FrameTold(fr) ==
    IF fr.pass = "iterate" THEN fr.graph = EmptyGraph
    ELSE /\ fr.state \subseteq nodes_of(fr.graph)
         /\ \A n \in fr.state : leaf(n.at).location \in 1 .. fr.at - 1
         /\ \A n \in nodes_of(fr.graph) : root(n.at).location \in {Start} \cup 1 .. fr.at - 1
         /\ \A k \in 1 .. fr.at - 1 : \A x \in {code(fr.fn)[k].dest.local} :
                leaves(returning, fr.fn, code(fr.fn)[k], x) => \E n \in fr.state : n.place.local = x
         /\ GraphTold(fr.graph)

BuiltTold(f) ==
    /\ GraphTold(pdg[f]) /\ pdg[f].nodes # {}
    /\ f \in returning => \E n \in parentable_dsts(f) : n.place.local = RETURN_PLACE

SpdgTold(g) == GraphTold(g) /\ g.markers = [n \in nodes_of(g) |-> node_annotations(g, n)]

MInv ==
    /\ \A f \in built : BuiltTold(f)
    /\ \A i \in DOMAIN stack : FrameTold(stack[i])
    /\ \A t \in DOMAIN spdgs : SpdgTold(spdgs[t])

\* Where the instruction at l of f is.
At(f, l) == single(GlobalLocation(f, l))

\* An argument of f, as it is passed.
AtStart(f, n) == n = DepNode(n.place, At(f, Start)) /\ is_arg(f, n.place)

\* What the instruction at l of f adds to a graph: edges from what is there, to itself.
NewGraph(f, l, s, g) ==
    /\ \A n \in g.nodes : root(n.at).location = l
    /\ \A e \in g.edges :
        /\ root(e.to.at).location = l
        /\ root(e.from.at).location = l \/ e.from \in s \/ AtStart(f, e.from)

\* Where a node at an instruction is.
LEMMA AtFacts ==
    ASSUME NEW f, NEW l
    PROVE  /\ leaf(At(f, l)) = GlobalLocation(f, l) /\ root(At(f, l)) = GlobalLocation(f, l)
           /\ At(f, l) = <<GlobalLocation(f, l)>> /\ Len(At(f, l)) = 1
           /\ GlobalLocation(f, l).function = f /\ GlobalLocation(f, l).location = l
  BY DEF At, single, leaf, root, GlobalLocation

\* The call at a location.
LEMMA CallAt ==
    ASSUME NEW loc, NEW c \in calls_at(loc)
    PROVE  /\ is_real(loc.location) /\ loc.location \in calls(loc.function)
           /\ c = code(loc.function)[loc.location] /\ c.op = "call"
  BY DEF calls_at, calls

\* There is one call at the location of a call.
LEMMA CallThere ==
    ASSUME NEW f \in Fn, program \in Programs, NEW l \in calls(f)
    PROVE  calls_at(GlobalLocation(f, l)) = {code(f)[l]}
<1>1. l \in DOMAIN code(f) /\ code(f)[l].op = "call"
  BY DEF calls
<1>2. is_real(l)
  BY <1>1, LocationsAssumption DEF code
<1> QED BY <1>1, <1>2, AtFacts DEF calls_at

\* A place that is not behind a reference stands for itself.
LEMMA PlainFacts ==
    ASSUME NEW f, NEW p, plain(f, p)
    PROVE  /\ is_conflict(f, p, p)
           /\ \A at : find_outputs(f, p, at) = {DepNode(p, at)}
           /\ \A s, n : n \in find_data_inputs(f, s, p) <=>
                    \/ n \in s /\ is_conflict(f, n.place, p)
                    \/ is_arg(f, p) /\ n = DepNode(p, At(f, Start))
<1>1. aliases(code(f), p) = {p} /\ ~is_indirect(p)
  BY DEF plain
<1>2. refs_in_projection(p) = {}
  BY <1>1 DEF refs_in_projection, is_indirect
<1>3. is_conflict(f, p, p)
  BY <1>1 DEF is_conflict, Conflict, IsRestriction
<1>4. \A at : find_outputs(f, p, at) = {DepNode(p, at)}
  BY <1>1 DEF find_outputs
<1>5. UNION {aliases(code(f), q) : q \in {p} \cup refs_in_projection(p)} = {p}
  BY <1>1, <1>2
<1>6. ASSUME NEW s, NEW n
      PROVE  n \in find_data_inputs(f, s, p) <=>
                    \/ n \in s /\ is_conflict(f, n.place, p)
                    \/ is_arg(f, p) /\ n = DepNode(p, At(f, Start))
  BY <1>5 DEF find_data_inputs, At
<1> QED BY <1>3, <1>4, <1>6

\* What an instruction reads is in its state or an argument of the function.
LEMMA InputFrom ==
    ASSUME NEW f, NEW s, NEW p, NEW n \in find_data_inputs(f, s, p)
    PROVE  n \in s \/ AtStart(f, n)
<1>1. n \in s \/ \E a : is_arg(f, a) /\ n = DepNode(a, At(f, Start))
  BY DEF find_data_inputs, At
<1>2. ASSUME NEW a, is_arg(f, a), n = DepNode(a, At(f, Start)) PROVE AtStart(f, n)
  BY <1>2 DEF AtStart, DepNode
<1> QED BY <1>1, <1>2

LEMMA OutputAt ==
    ASSUME NEW f, NEW p, NEW at, NEW n \in find_outputs(f, p, at)
    PROVE  n = DepNode(n.place, at) /\ n.at = at /\ n.place \in aliases(code(f), p)
  BY DEF find_outputs, DepNode

\* What a mutation adds.
LEMMA RegisteredEdge ==
    ASSUME NEW f, NEW s, NEW ms, NEW at, NEW e \in register_mutation(f, s, ms, at).edges
    PROVE  \E m \in ms : \E i \in m.inputs :
              /\ e = DepEdge(e.from, e.to, at, i[2], m.reason)
              /\ e.from \in find_data_inputs(f, s, i[1]) /\ e.to \in find_outputs(f, m.mutated, at)
              /\ e.at = at /\ e.source_use = i[2] /\ e.target_use = m.reason
<1>1. PICK m \in ms : e \in data_edges(f, s, m, at)
  BY DEF register_mutation
<1>2. PICK i \in m.inputs : \E n \in find_data_inputs(f, s, i[1]), o \in find_outputs(f, m.mutated, at) :
            e = DepEdge(n, o, at, i[2], m.reason)
  BY <1>1 DEF data_edges
<1> QED BY <1>2 DEF DepEdge

LEMMA RegisteredNew ==
    ASSUME NEW f, NEW l, NEW s, NEW S, \A n \in S : n \in s \/ root(n.at).location = l, NEW ms
    PROVE  NewGraph(f, l, s, register_mutation(f, S, ms, At(f, l)))
<1> DEFINE g == register_mutation(f, S, ms, At(f, l))
<1>1. ASSUME NEW p, NEW n \in find_outputs(f, p, At(f, l)) PROVE root(n.at).location = l
  BY OutputAt, AtFacts
<1>2. ASSUME NEW n \in g.nodes PROVE root(n.at).location = l
  <2>1. PICK m \in ms : n \in find_outputs(f, m.mutated, At(f, l))
    BY DEF register_mutation
  <2> QED BY <1>1, <2>1
<1>3. ASSUME NEW e \in g.edges
      PROVE  /\ root(e.to.at).location = l
             /\ root(e.from.at).location = l \/ e.from \in s \/ AtStart(f, e.from)
  <2>1. PICK m \in ms : \E i \in m.inputs :
            /\ e.from \in find_data_inputs(f, S, i[1]) /\ e.to \in find_outputs(f, m.mutated, At(f, l))
    BY RegisteredEdge
  <2>2. PICK i \in m.inputs : e.from \in find_data_inputs(f, S, i[1])
    BY <2>1
  <2>3. e.from \in S \/ AtStart(f, e.from)
    BY <2>2, InputFrom
  <2> QED BY <1>1, <2>1, <2>3
<1> HIDE DEF g
<1>4. NewGraph(f, l, s, g)
  BY <1>2, <1>3 DEF NewGraph
<1> QED BY <1>4 DEF g

\* A node of a callee's graph, seen from a call at loc.
LEMMA PushFacts ==
    ASSUME NEW w \in Fn, NEW k, NodeOK(w, k), NEW loc
    PROVE  /\ push_node(k, loc) = DepNode(k.place, push_front(k.at, loc))
           /\ push_node(k, loc).place = k.place /\ push_node(k, loc).at = push_front(k.at, loc)
           /\ root(push_front(k.at, loc)) = loc /\ leaf(push_front(k.at, loc)) = leaf(k.at)
           /\ Len(k.at) \in Nat /\ Len(k.at) # 0 /\ DOMAIN k.at = 1 .. Len(k.at)
           /\ Len(push_front(k.at, loc)) = Len(k.at) + 1 /\ Tail(push_front(k.at, loc)) = k.at
           /\ DOMAIN push_front(k.at, loc) = 1 .. Len(k.at) + 1
           /\ push_front(k.at, loc)[1] = loc
           /\ \A i \in 1 .. Len(k.at) : push_front(k.at, loc)[i + 1] = k.at[i]
<1> DEFINE ds == push_front(k.at, loc)
<1>1. k = DepNode(k.place, k.at) /\ StringOK(w, k.at)
  BY DEF NodeOK
<1>2. push_node(k, loc) = DepNode(k.place, ds) /\ push_node(k, loc).place = k.place /\ push_node(k, loc).at = ds
  BY <1>1 DEF push_node, DepNode
<1>3. /\ Tail(ds) = k.at /\ leaf(ds) = leaf(k.at) /\ ds[1] = loc
      /\ Len(ds) = Len(k.at) + 1 /\ \A i \in 1 .. Len(k.at) : ds[i + 1] = k.at[i]
      /\ ds \in Seq({loc} \cup locations(k.at))
  BY <1>1, PushedTail
<1>4. Len(k.at) \in Nat /\ Len(k.at) # 0 /\ DOMAIN k.at = 1 .. Len(k.at)
  BY <1>1, StringFacts
<1>5. DOMAIN ds = 1 .. Len(k.at) + 1
  BY <1>3, <1>4
<1> HIDE DEF ds
<1>6. root(ds) = loc
  BY <1>3 DEF root
<1> QED BY <1>2, <1>3, <1>4, <1>5, <1>6 DEF ds

-----------------------------------------------------------------------------
(***************************************************************************)
(* What the graph of an inlined call consists of.                          *)
(***************************************************************************)
pushed_edge(e, loc) ==
    DepEdge(push_node(e.from, loc), push_node(e.to, loc), push_front(e.at, loc),
            e.source_use, e.target_use)

LEMMA PushedParts ==
    ASSUME NEW w, NEW g, GraphOK(w, g), NEW loc
    PROVE  /\ push_call_string_root(g, loc).nodes = {push_node(n, loc) : n \in g.nodes}
           /\ push_call_string_root(g, loc).edges = {pushed_edge(e, loc) : e \in g.edges}
<1>1. \A e \in g.edges : e = DepEdge(e.from, e.to, e.at, e.source_use, e.target_use)
  BY DEF GraphOK, EdgeOK
<1>2. ASSUME NEW e \in g.edges,
             NEW d, d = [e EXCEPT !.from = push_node(@, loc), !.to = push_node(@, loc),
                                  !.at = push_front(@, loc)]
      PROVE  d = pushed_edge(e, loc)
  <2>1. e = [from |-> e.from, to |-> e.to, at |-> e.at,
             source_use |-> e.source_use, target_use |-> e.target_use]
    BY <1>1 DEF DepEdge
  <2>2. d = [from |-> push_node(e.from, loc), to |-> push_node(e.to, loc),
             at |-> push_front(e.at, loc),
             source_use |-> e.source_use, target_use |-> e.target_use]
    BY <1>2, <2>1
  <2> QED BY <2>2 DEF pushed_edge, DepEdge
<1> QED BY <1>2 DEF push_call_string_root

\* What the callee leaves at d is p in the caller.
Returned(f, c, d, p) ==
    /\ d \in parentable_dsts(wanted(f, c))
    /\ \E q \in translated(f, c, d.place) : p \in aliases(code(f), q)

returned_edge(f, l, d, p) ==
    DepEdge(push_node(d, GlobalLocation(f, l)), DepNode(p, At(f, l)), At(f, l),
            Operand, returned_as(d.place))

\* An edge of the callee, one into its arguments, or one out of its results.
InlinedEdge(f, l, s, e) ==
    LET c == code(f)[l]
        w == wanted(f, c)
        loc == GlobalLocation(f, l)
    IN  \/ \E d \in pdg[w].edges : e = pushed_edge(d, loc)
        \/ \E d \in parentable_srcs(w) :
            /\ e.to = push_node(d, loc) /\ (e.from \in s \/ AtStart(f, e.from))
            /\ e.at = At(f, l) /\ e.source_use = Operand
        \/ \E d, p : Returned(f, c, d, p) /\ e = returned_edge(f, l, d, p)

InlinedNode(f, l, n) ==
    LET c == code(f)[l]
        w == wanted(f, c)
        loc == GlobalLocation(f, l)
    IN  \/ \E d \in nodes_of(pdg[w]) : n = push_node(d, loc)
        \/ \E d, p : Returned(f, c, d, p) /\ n = DepNode(p, At(f, l))

\* Nodes and edges of an inlined call, by where they come from.
LEMMA InlinedParts ==
    ASSUME NEW f, NEW l, NEW s, NEW w, w = wanted(f, code(f)[l]), GraphOK(w, pdg[w])
    PROVE  LET v == handle_as_inline(f, code(f)[l], s, At(f, l))
               loc == GlobalLocation(f, l)
           IN  /\ \A n \in v.nodes : InlinedNode(f, l, n)
               /\ \A e \in v.edges : InlinedEdge(f, l, s, e)
               /\ \A d \in pdg[w].nodes : push_node(d, loc) \in v.nodes
               /\ \A e \in pdg[w].edges : pushed_edge(e, loc) \in v.edges
               /\ \A d, p : Returned(f, code(f)[l], d, p) => returned_edge(f, l, d, p) \in v.edges
<1> DEFINE c == code(f)[l]
           loc == GlobalLocation(f, l)
           at == At(f, l)
           child == push_call_string_root(pdg[w], loc)
           into == UNION {UNION {{d} \X find_data_inputs(f, s, p) : p \in translated(f, c, d.place)} :
                            d \in parentable_srcs(w)}
           out == UNION {{d[1]} \X find_outputs(f, d[2], at) : d \in mutated_by(f, c)}
           v == handle_as_inline(f, c, s, at)
<1>1. leaf(at) = loc
  BY AtFacts
<1>2. /\ v.nodes = child.nodes \cup {d[2] : d \in out}
            \cup {push_node(d, loc) : d \in {d \in parentable_srcs(w) : translated(f, c, d.place) # {}}}
      /\ v.edges = child.edges
            \cup {DepEdge(d[2], push_node(d[1], loc), at, Operand, Assign) : d \in into}
            \cup {DepEdge(push_node(d[1], loc), d[2], at, Operand, returned_as(d[1].place)) : d \in out}
  BY <1>1 DEF handle_as_inline
<1>3. /\ child.nodes = {push_node(d, loc) : d \in pdg[w].nodes}
      /\ child.edges = {pushed_edge(e, loc) : e \in pdg[w].edges}
  BY PushedParts
<1>4. ASSUME NEW d \in into
      PROVE d[1] \in parentable_srcs(w) /\ (d[2] \in s \/ AtStart(f, d[2]))
  <2>1. PICK n \in parentable_srcs(w) : \E p \in translated(f, c, n.place) :
            d \in {n} \X find_data_inputs(f, s, p)
    BY <1>4
  <2>2. PICK p \in translated(f, c, n.place) : d \in {n} \X find_data_inputs(f, s, p)
    BY <2>1
  <2>3. d[1] = n /\ d[2] \in find_data_inputs(f, s, p)
    BY <2>2
  <2> QED BY <2>3, InputFrom
<1>5. ASSUME NEW d \in out PROVE \E p : Returned(f, c, d[1], p) /\ d[2] = DepNode(p, at)
  <2>1. PICK b \in mutated_by(f, c) : d \in {b[1]} \X find_outputs(f, b[2], at)
    BY <1>5
  <2>2. PICK n \in parentable_dsts(w) : b \in {n} \X translated(f, c, n.place)
    BY <2>1 DEF mutated_by
  <2>3. b[1] = n /\ b[2] \in translated(f, c, n.place) /\ d[1] = n /\ d[2] \in find_outputs(f, b[2], at)
    BY <2>1, <2>2
  <2>4. PICK p \in aliases(code(f), b[2]) : d[2] = DepNode(p, at)
    BY <2>3 DEF find_outputs
  <2> QED BY <2>3, <2>4 DEF Returned
<1>6. ASSUME NEW d, NEW p, Returned(f, c, d, p) PROVE <<d, DepNode(p, at)>> \in out
  <2>1. PICK q \in translated(f, c, d.place) : p \in aliases(code(f), q)
    BY <1>6 DEF Returned
  <2>2. <<d, q>> \in mutated_by(f, c)
    BY <1>6, <2>1 DEF Returned, mutated_by
  <2>3. DepNode(p, at) \in find_outputs(f, q, at)
    BY <2>1 DEF find_outputs
  <2>4. <<d, q>>[1] = d /\ <<d, q>>[2] = q
    OBVIOUS
  <2>5. <<d, DepNode(p, at)>> \in {<<d, q>>[1]} \X find_outputs(f, <<d, q>>[2], at)
    BY <2>3, <2>4
  <2> QED BY <2>2, <2>5
<1>7. \A d \in parentable_srcs(w) : d \in nodes_of(pdg[w])
  BY DEF parentable_srcs, nodes_of
<1>8. pdg[w].nodes \subseteq nodes_of(pdg[w])
  BY DEF nodes_of
<1> HIDE DEF into, out, child, v, loc, at, c
<1> USE DEF c, at, loc
<1>9. ASSUME NEW n \in v.nodes PROVE InlinedNode(f, l, n)
  <2>1. CASE \E d \in pdg[w].nodes : n = push_node(d, loc)
    BY <1>8, <2>1 DEF InlinedNode
  <2>2. CASE \E d \in out : n = d[2]
    BY <1>5, <2>2 DEF InlinedNode
  <2>3. CASE \E d \in parentable_srcs(w) : n = push_node(d, loc)
    BY <1>7, <2>3 DEF InlinedNode
  <2> QED BY <1>2, <1>3, <2>1, <2>2, <2>3
<1>10. ASSUME NEW e \in v.edges PROVE InlinedEdge(f, l, s, e)
  <2>1. CASE \E d \in pdg[w].edges : e = pushed_edge(d, loc)
    BY <2>1 DEF InlinedEdge
  <2>2. CASE \E d \in into : e = DepEdge(d[2], push_node(d[1], loc), at, Operand, Assign)
    <3>1. PICK d \in into : e = DepEdge(d[2], push_node(d[1], loc), at, Operand, Assign)
      BY <2>2
    <3>2. e.to = push_node(d[1], loc) /\ e.from = d[2] /\ e.at = at /\ e.source_use = Operand
      BY <3>1 DEF DepEdge
    <3> QED BY <1>4, <3>2 DEF InlinedEdge
  <2>3. CASE \E d \in out : e = DepEdge(push_node(d[1], loc), d[2], at, Operand, returned_as(d[1].place))
    <3>1. PICK d \in out : e = DepEdge(push_node(d[1], loc), d[2], at, Operand, returned_as(d[1].place))
      BY <2>3
    <3>2. PICK p : Returned(f, c, d[1], p) /\ d[2] = DepNode(p, at)
      BY <1>5
    <3>3. e = returned_edge(f, l, d[1], p)
      BY <3>1, <3>2 DEF returned_edge
    <3> QED BY <3>2, <3>3 DEF InlinedEdge
  <2> QED BY <1>2, <1>3, <2>1, <2>2, <2>3
<1>11. \A d \in pdg[w].nodes : push_node(d, loc) \in v.nodes
  BY <1>2, <1>3
<1>12. \A e \in pdg[w].edges : pushed_edge(e, loc) \in v.edges
  BY <1>2, <1>3
<1>13. ASSUME NEW d, NEW p, Returned(f, c, d, p) PROVE returned_edge(f, l, d, p) \in v.edges
  <2>1. <<d, DepNode(p, at)>> \in out
    BY <1>6, <1>13
  <2>2. returned_edge(f, l, d, p) =
            DepEdge(push_node(<<d, DepNode(p, at)>>[1], loc), <<d, DepNode(p, at)>>[2], at, Operand,
                    returned_as(<<d, DepNode(p, at)>>[1].place))
    BY DEF returned_edge
  <2> QED BY <1>2, <2>1, <2>2
<1> QED BY <1>9, <1>10, <1>11, <1>12, <1>13 DEF v, c, at, loc

\* Only nodes of the callee, of the state and arguments occur in them.
LEMMA InlinedNew ==
    ASSUME NEW f, NEW l, NEW s, NEW w \in Fn, w = wanted(f, code(f)[l]), GraphOK(w, pdg[w])
    PROVE  NewGraph(f, l, s, handle_as_inline(f, code(f)[l], s, At(f, l)))
<1> DEFINE v == handle_as_inline(f, code(f)[l], s, At(f, l))
           loc == GlobalLocation(f, l)
<1>1. ASSUME NEW n \in nodes_of(pdg[w]) PROVE root(push_node(n, loc).at).location = l
  <2>1. NodeOK(w, n)
    BY DEF nodes_of, GraphOK, EdgeOK
  <2> QED BY <2>1, PushFacts, AtFacts
<1>2. \A p : root(DepNode(p, At(f, l)).at).location = l
  BY AtFacts DEF DepNode
<1>3. \A d \in parentable_srcs(w) \cup parentable_dsts(w) : d \in nodes_of(pdg[w])
  BY DEF parentable_srcs, parentable_dsts, nodes_of
<1>4. (\A n \in v.nodes : InlinedNode(f, l, n)) /\ (\A e \in v.edges : InlinedEdge(f, l, s, e))
  BY InlinedParts
<1> HIDE DEF v, loc
<1>5. ASSUME NEW n \in v.nodes PROVE root(n.at).location = l
  BY <1>1, <1>2, <1>4 DEF InlinedNode, loc
<1>6. ASSUME NEW e \in v.edges
      PROVE  /\ root(e.to.at).location = l
             /\ root(e.from.at).location = l \/ e.from \in s \/ AtStart(f, e.from)
  <2>1. CASE \E d \in pdg[w].edges : e = pushed_edge(d, loc)
    <3>1. PICK d \in pdg[w].edges : e = pushed_edge(d, loc)
      BY <2>1
    <3>2. e.to = push_node(d.to, loc) /\ e.from = push_node(d.from, loc)
      BY <3>1 DEF pushed_edge, DepEdge
    <3>3. d.to \in nodes_of(pdg[w]) /\ d.from \in nodes_of(pdg[w])
      BY DEF nodes_of
    <3> QED BY <1>1, <3>2, <3>3
  <2>2. CASE \E d \in parentable_srcs(w) :
                e.to = push_node(d, loc) /\ (e.from \in s \/ AtStart(f, e.from))
    BY <1>1, <1>3, <2>2
  <2>3. CASE \E d, p : Returned(f, code(f)[l], d, p) /\ e = returned_edge(f, l, d, p)
    <3>1. PICK d, p : Returned(f, code(f)[l], d, p) /\ e = returned_edge(f, l, d, p)
      BY <2>3
    <3>2. e.from = push_node(d, loc) /\ e.to = DepNode(p, At(f, l))
      BY <3>1 DEF returned_edge, DepEdge, loc
    <3>3. d \in nodes_of(pdg[w])
      BY <1>3, <3>1 DEF Returned
    <3> QED BY <1>1, <1>2, <3>2, <3>3
  <2> QED BY <1>4, <2>1, <2>2, <2>3 DEF InlinedEdge, loc
<1>7. NewGraph(f, l, s, v)
  BY <1>5, <1>6 DEF NewGraph
<1> QED BY <1>7 DEF v

-----------------------------------------------------------------------------
(***************************************************************************)
(* What an instruction adds to a graph.                                    *)
(***************************************************************************)
LEMMA HandlingCases ==
    ASSUME NEW f, NEW c
    PROVE  /\ \/ determine_call_handling(f, c) = "Ready"
              \/ determine_call_handling(f, c) = "None" /\ ~stands_in(f, c)
              \/ determine_call_handling(f, c) \notin {"Ready", "None"} /\ stands_in(f, c)
           /\ determine_call_handling(f, c) = "Ready" => ~stands_in(f, c) /\ wanted(f, c) # None
           /\ stands_in(f, c) => wanted(f, c) = None
<1>1. stands_in(f, c) => wanted(f, c) = None
  BY DEF stands_in, wanted
<1>2. CASE wanted(f, c) # None /\ entry[wanted(f, c)] = "Some"
  <2> DEFINE w == wanted(f, c)
  <2> HIDE DEF w
  <2>1. w = wanted(f, c)
    BY DEF w
  <2>2. c.callee # None /\ c.callee \notin approximated /\ ~is_async(c.callee)
    BY <1>2 DEF wanted
  <2>3. determine_call_handling(f, c) = "Ready"
    BY <1>2, <2>1, <2>2 DEF determine_call_handling
  <2> QED BY <1>1, <1>2, <2>3
<1>3. CASE ~(wanted(f, c) # None /\ entry[wanted(f, c)] = "Some")
  <2>1. CASE c.callee # None /\ c.callee \in approximated
    BY <1>1, <1>3, <2>1 DEF determine_call_handling, stands_in
  <2>2. CASE c.callee # None /\ c.callee \notin approximated /\ is_async(c.callee) /\ on_inline(f, c) # "Skip"
    BY <1>1, <1>3, <2>2 DEF determine_call_handling, stands_in
  <2>3. CASE /\ ~(c.callee # None /\ c.callee \in approximated)
             /\ ~(c.callee # None /\ is_async(c.callee) /\ on_inline(f, c) # "Skip")
    BY <1>1, <1>3, <2>3 DEF determine_call_handling, stands_in
  <2> QED BY <2>1, <2>2, <2>3
<1> QED BY <1>2, <1>3

\* What is assigned is a part of the destination, from operands.
LEMMA AssignMutations ==
    ASSUME NEW to, NEW r, NEW m \in visit_assign(to, r)
    PROVE  m.mutated.local = to.local /\ \A i \in m.inputs : i[2] = Operand
<1>1. ASSUME NEW t, NEW op, NEW n, NEW a \in moved(t, op, n)
      PROVE  a.mutated.local = t.local /\ \A i \in a.inputs : i[2] = Operand
  <2>1. CASE op = None \/ n = 0
    <3>1. a.mutated = t /\ a.inputs = ({op} \ {None}) \X {Operand}
      BY <2>1 DEF moved, Mutation, operands
    <3> QED BY <3>1
  <2>2. CASE ~(op = None \/ n = 0)
    <3>1. PICK k : a = Mutation(project_deeper(t, <<Field(k)>>),
                                operands({project_deeper(op, <<Field(k)>>)}), Assign)
      BY <2>2 DEF moved
    <3>2. /\ a.mutated = project_deeper(t, <<Field(k)>>)
          /\ a.inputs = {project_deeper(op, <<Field(k)>>)} \X {Operand}
      BY <3>1 DEF Mutation, operands
    <3> QED BY <3>2 DEF project_deeper, Place
  <2> QED BY <2>1, <2>2
<1>2. CASE r.kind = "Use"
  BY <1>1, <1>2 DEF visit_assign
<1>3. CASE r.kind = "Aggregate" /\ r.ops # <<>>
  <2>1. PICK k \in DOMAIN r.ops :
            m \in moved(project_deeper(to, r.variant \o <<Field(k - 1)>>), r.ops[k], r.fields[k])
    BY <1>3 DEF visit_assign
  <2>2. project_deeper(to, r.variant \o <<Field(k - 1)>>).local = to.local
    BY DEF project_deeper, Place
  <2> QED BY <1>1, <2>1, <2>2
<1>4. CASE r.kind # "Use" /\ ~(r.kind = "Aggregate" /\ r.ops # <<>>)
  BY <1>4 DEF visit_assign, Mutation, operands
<1> QED BY <1>2, <1>3, <1>4

\* The state after an instruction.
LEMMA AfterFacts ==
    ASSUME NEW f, NEW s, NEW ps, NEW at, NEW n
    PROVE  n \in apply_mutation(f, s, ps, at) <=>
            \/ n \in s /\ \A p \in ps : \A o \in find_outputs(f, p, at) : n.place # o.place
            \/ \E p \in ps : n \in find_outputs(f, p, at)
  BY DEF apply_mutation

\* A call that is approximated by its signature.
modular(f, c, s, at) ==
    Join(register_mutation(f, s, combine_before(c.args), at),
         register_mutation(f, apply_mutation(f, s, effect(f, c), at), combine_after(c.args, c.dest), at))

\* The graph of an instruction, by how it is handled.
LEMMA VisitedIs ==
    ASSUME NEW f, NEW i, NEW s, NEW at
    PROVE  /\ i.op = "assign" =>
                /\ visited(f, i, s, at) = register_mutation(f, s, visit_assign(i.dest, i.rvalue), at)
                /\ effect(f, i) = {m.mutated : m \in visit_assign(i.dest, i.rvalue)}
           /\ i.op = "call" /\ determine_call_handling(f, i) = "Ready" =>
                /\ visited(f, i, s, at) = handle_as_inline(f, i, s, at)
                /\ effect(f, i) = {d[2] : d \in mutated_by(f, i)}
           /\ i.op = "call" /\ determine_call_handling(f, i) = "None" =>
                /\ visited(f, i, s, at) = modular(f, i, s, at)
                /\ effect(f, i) = places(i.args) \cup {i.dest}
           /\ i.op = "call" /\ stands_in(f, i) =>
                /\ visited(f, i, s, at) =
                        Join(modular(f, i, s, at),
                             register_mutation(f, s, visit_assign(i.dest, approximation(f, i)), at))
                /\ effect(f, i) = {m.mutated : m \in visit_assign(i.dest, approximation(f, i))}
<1>1. CASE i.op = "assign"
  BY <1>1 DEF visited, effect
<1>2. CASE i.op = "call" /\ determine_call_handling(f, i) = "Ready"
  BY <1>2, HandlingCases DEF visited, effect
<1>3. CASE i.op = "call" /\ determine_call_handling(f, i) = "None"
  BY <1>3, HandlingCases DEF visited, effect, modular
<1>4. CASE i.op = "call" /\ determine_call_handling(f, i) \notin {"Ready", "None"}
  BY <1>4 DEF visited, effect, modular
<1> QED BY <1>1, <1>2, <1>3, <1>4, HandlingCases

LEMMA JoinNew ==
    ASSUME NEW f, NEW l, NEW s, NEW g, NEW h, NewGraph(f, l, s, g), NewGraph(f, l, s, h)
    PROVE  NewGraph(f, l, s, Join(g, h))
  BY DEF NewGraph, Join

LEMMA ModularNew ==
    ASSUME NEW f, NEW l, NEW s, NEW c
    PROVE  NewGraph(f, l, s, modular(f, c, s, At(f, l)))
<1> DEFINE after_ == apply_mutation(f, s, effect(f, c), At(f, l))
<1>1. ASSUME NEW n \in after_ PROVE n \in s \/ root(n.at).location = l
  BY AfterFacts, OutputAt, AtFacts
<1>2. NewGraph(f, l, s, register_mutation(f, s, combine_before(c.args), At(f, l)))
  BY RegisteredNew
<1> HIDE DEF after_
<1>3. NewGraph(f, l, s, register_mutation(f, after_, combine_after(c.args, c.dest), At(f, l)))
  BY <1>1, RegisteredNew
<1> QED BY <1>2, <1>3, JoinNew DEF modular, after_

\* An instruction adds edges to itself from what is there.
LEMMA VisitedNew ==
    ASSUME program \in Programs, NEW f \in Fn, NEW l \in DOMAIN code(f), code(f)[l].op \in {"assign", "call"},
           \A w \in built : GraphOK(w, pdg[w]), NEW s
    PROVE  NewGraph(f, l, s, visited(f, code(f)[l], s, At(f, l)))
<1> DEFINE i == code(f)[l]
           at == At(f, l)
<1>1. CASE i.op = "assign"
  <2>1. NewGraph(f, l, s, register_mutation(f, s, visit_assign(i.dest, i.rvalue), at))
    BY RegisteredNew
  <2> QED BY <1>1, <2>1, VisitedIs
<1>2. CASE i.op = "call" /\ determine_call_handling(f, i) = "Ready"
  <2>1. l \in calls(f)
    BY <1>2 DEF calls
  <2>2. wanted(f, i) \in built
    BY <1>2, <2>1, ReadyFacts
  <2>3. wanted(f, i) \in Fn /\ GraphOK(wanted(f, i), pdg[wanted(f, i)])
    BY <2>2 DEF built
  <2>4. NewGraph(f, l, s, handle_as_inline(f, i, s, at))
    BY <2>3, InlinedNew
  <2> QED BY <1>2, <2>4, VisitedIs
<1>3. CASE i.op = "call" /\ determine_call_handling(f, i) = "None"
  BY <1>3, ModularNew, VisitedIs
<1>4. CASE i.op = "call" /\ stands_in(f, i)
  <2>1. NewGraph(f, l, s, register_mutation(f, s, visit_assign(i.dest, approximation(f, i)), at))
    BY RegisteredNew
  <2> QED BY <1>4, <2>1, ModularNew, JoinNew, VisitedIs
<1> QED BY <1>1, <1>2, <1>3, <1>4, HandlingCases

\* What a call's approximation tells of its arguments.
LEMMA ModularEdge ==
    ASSUME NEW f, NEW c, NEW s, NEW at, NEW e \in modular(f, c, s, at).edges
    PROVE  LET after_ == apply_mutation(f, s, effect(f, c), at)
           IN  /\ e.at = at
               /\ \/ \E a \in places(c.args) :
                        /\ e.from \in find_data_inputs(f, s, a) /\ e.to \in find_outputs(f, a, at)
                        /\ e.source_use = Operand /\ e.target_use = Assign
                  \/ \E k \in DOMAIN c.args :
                        /\ c.args[k] # None
                        /\ e.from \in find_data_inputs(f, after_, c.args[k])
                        /\ e.to \in find_outputs(f, c.dest, at)
                        /\ e.source_use = Argument(k - 1) /\ e.target_use = Return
<1> DEFINE after_ == apply_mutation(f, s, effect(f, c), at)
<1> HIDE DEF after_
<1>1. CASE e \in register_mutation(f, s, combine_before(c.args), at).edges
  <2>1. PICK m \in combine_before(c.args) : \E i \in m.inputs :
              /\ e.from \in find_data_inputs(f, s, i[1]) /\ e.to \in find_outputs(f, m.mutated, at)
              /\ e.at = at /\ e.source_use = i[2] /\ e.target_use = m.reason
    BY <1>1, RegisteredEdge
  <2>2. PICK a \in places(c.args) : m = Mutation(a, operands({a}), Assign)
    BY DEF combine_before
  <2>3. m.mutated = a /\ m.reason = Assign /\ m.inputs = {a} \X {Operand}
    BY <2>2 DEF Mutation, operands
  <2> QED BY <2>1, <2>3
<1>2. CASE e \in register_mutation(f, after_, combine_after(c.args, c.dest), at).edges
  <2>1. PICK m \in combine_after(c.args, c.dest) : \E i \in m.inputs :
              /\ e.from \in find_data_inputs(f, after_, i[1]) /\ e.to \in find_outputs(f, m.mutated, at)
              /\ e.at = at /\ e.source_use = i[2] /\ e.target_use = m.reason
    BY <1>2, RegisteredEdge
  <2>2. /\ m.mutated = c.dest /\ m.reason = Return
        /\ m.inputs = {<<c.args[k], Argument(k - 1)>> : k \in {k \in DOMAIN c.args : c.args[k] # None}}
    BY DEF combine_after, Mutation
  <2>3. PICK k \in DOMAIN c.args :
              /\ c.args[k] # None
              /\ e.from \in find_data_inputs(f, after_, c.args[k]) /\ e.to \in find_outputs(f, c.dest, at)
              /\ e.at = at /\ e.source_use = Argument(k - 1) /\ e.target_use = Return
    BY <2>1, <2>2
  <2> QED BY <2>3 DEF after_
<1> QED BY <1>1, <1>2 DEF modular, Join, after_

\* And it tells all of that.
LEMMA ModularHas ==
    ASSUME NEW f, NEW c, NEW s, NEW at
    PROVE  LET after_ == apply_mutation(f, s, effect(f, c), at)
           IN  /\ \A a \in places(c.args) : \A n \in find_data_inputs(f, s, a), o \in find_outputs(f, a, at) :
                        DepEdge(n, o, at, Operand, Assign) \in modular(f, c, s, at).edges
               /\ \A k \in DOMAIN c.args : c.args[k] # None =>
                    \A n \in find_data_inputs(f, after_, c.args[k]), o \in find_outputs(f, c.dest, at) :
                        DepEdge(n, o, at, Argument(k - 1), Return) \in modular(f, c, s, at).edges
               /\ \A n \in modular(f, c, s, at).nodes :
                        \E a \in places(c.args) \cup {c.dest} : n \in find_outputs(f, a, at)
<1> DEFINE after_ == apply_mutation(f, s, effect(f, c), at)
           g == register_mutation(f, s, combine_before(c.args), at)
           h == register_mutation(f, after_, combine_after(c.args, c.dest), at)
<1> HIDE DEF after_
<1>1. modular(f, c, s, at) = Join(g, h)
  BY DEF modular, after_
<1>2. ASSUME NEW a \in places(c.args), NEW n \in find_data_inputs(f, s, a), NEW o \in find_outputs(f, a, at)
      PROVE  DepEdge(n, o, at, Operand, Assign) \in g.edges
  <2> DEFINE mu == Mutation(a, operands({a}), Assign)
  <2>1. mu \in combine_before(c.args)
    BY DEF combine_before
  <2>2. mu.mutated = a /\ mu.reason = Assign /\ <<a, Operand>> \in mu.inputs
    BY DEF Mutation, operands
  <2> HIDE DEF mu
  <2>3. DepEdge(n, o, at, Operand, Assign) \in data_edges(f, s, mu, at)
    BY <2>2, <1>2 DEF data_edges
  <2> QED BY <2>1, <2>3 DEF register_mutation
<1>3. ASSUME NEW k \in DOMAIN c.args, c.args[k] # None,
             NEW n \in find_data_inputs(f, after_, c.args[k]), NEW o \in find_outputs(f, c.dest, at)
      PROVE  DepEdge(n, o, at, Argument(k - 1), Return) \in h.edges
  <2> DEFINE mu == Mutation(c.dest,
                        {<<c.args[j], Argument(j - 1)>> : j \in {j \in DOMAIN c.args : c.args[j] # None}}, Return)
  <2>1. mu \in combine_after(c.args, c.dest)
    BY DEF combine_after
  <2>2. mu.mutated = c.dest /\ mu.reason = Return /\ <<c.args[k], Argument(k - 1)>> \in mu.inputs
    BY <1>3 DEF Mutation
  <2> HIDE DEF mu
  <2>3. DepEdge(n, o, at, Argument(k - 1), Return) \in data_edges(f, after_, mu, at)
    BY <2>2, <1>3 DEF data_edges
  <2> QED BY <2>1, <2>3 DEF register_mutation
<1>4. ASSUME NEW n \in g.nodes PROVE \E a \in places(c.args) : n \in find_outputs(f, a, at)
  <2>1. PICK mu \in combine_before(c.args) : n \in find_outputs(f, mu.mutated, at)
    BY DEF register_mutation
  <2>2. PICK a \in places(c.args) : mu = Mutation(a, operands({a}), Assign)
    BY DEF combine_before
  <2>3. mu.mutated = a
    BY <2>2 DEF Mutation
  <2> QED BY <2>1, <2>3
<1>5. \A n \in h.nodes : n \in find_outputs(f, c.dest, at)
  BY DEF register_mutation, combine_after, Mutation
<1> HIDE DEF g, h
<1> QED BY <1>1, <1>2, <1>3, <1>4, <1>5 DEF Join, after_

-----------------------------------------------------------------------------
(***************************************************************************)
(* What the graph tells of a node stays true when f comes to l.            *)
(***************************************************************************)
Visiting(f, l, s, g) ==
    /\ program \in Programs /\ PlacesDeclared /\ CallsApart /\ CallsMarked
    /\ f \in Fn /\ f \notin built /\ l \in DOMAIN code(f)
    /\ \A w \in built : GraphOK(w, pdg[w]) /\ BuiltTold(w)
    /\ GraphOK(f, g) /\ StateOK(f, s)
    /\ s \subseteq nodes_of(g)
    /\ \A n \in s : leaf(n.at).location \in 1 .. l - 1
    /\ \A n \in nodes_of(g) : root(n.at).location \in {Start} \cup 1 .. l - 1
    /\ \A k \in 1 .. l - 1 : \A x \in {code(f)[k].dest.local} :
            leaves(returning, f, code(f)[k], x) => \E n \in s : n.place.local = x
    /\ GraphTold(g)

\* While f is visited, what is there is of earlier instructions.
LEMMA VisitingFacts ==
    ASSUME NEW f, NEW l, NEW s, NEW g, Visiting(f, l, s, g)
    PROVE  /\ l \in Nat /\ l # Start /\ is_real(l) /\ l \notin {Start} \cup 1 .. l - 1
           /\ DOMAIN code(f) = 1 .. Len(code(f)) /\ Len(code(f)) \in Nat
           /\ InstructionDeclared(f, code(f)[l]) /\ code(f)[l].op \in {"assign", "call"}
           /\ \A n \in s : /\ n = DepNode(n.place, At(f, leaf(n.at).location))
                           /\ root(n.at) = leaf(n.at) /\ leaf(n.at) = GlobalLocation(f, leaf(n.at).location)
                           /\ leaf(n.at).location # l /\ Len(n.at) = 1
           /\ NewGraph(f, l, s, visited(f, code(f)[l], s, At(f, l)))
           /\ \A w \in built : GraphOK(w, pdg[w])
<1>1. program \in Programs /\ f \in Fn /\ l \in DOMAIN code(f) /\ PlacesDeclared
  BY DEF Visiting
<1>2. DOMAIN code(f) = 1 .. Len(code(f)) /\ Len(code(f)) \in Nat
  BY <1>1, CodeFacts
<1>3. is_real(l) /\ l # Start
  BY <1>1, LocationsAssumption DEF code, is_real
<1>4. l \in Nat /\ l \notin {Start} \cup 1 .. l - 1
  BY <1>1, <1>2, <1>3
<1>5. InstructionDeclared(f, code(f)[l]) /\ code(f)[l].op \in {"assign", "call"}
  BY <1>1, DeclaredFacts DEF InstructionDeclared
<1>6. \A w \in built : GraphOK(w, pdg[w])
  BY DEF Visiting
<1>7. NewGraph(f, l, s, visited(f, code(f)[l], s, At(f, l)))
  BY <1>1, <1>5, <1>6, VisitedNew
<1>8. ASSUME NEW n \in s
      PROVE  /\ n = DepNode(n.place, At(f, leaf(n.at).location))
             /\ root(n.at) = leaf(n.at) /\ leaf(n.at) = GlobalLocation(f, leaf(n.at).location)
             /\ leaf(n.at).location # l /\ Len(n.at) = 1
  <2>1. n = DepNode(n.place, At(f, leaf(n.at).location)) /\ leaf(n.at).location \in 1 .. l - 1
    BY DEF Visiting, StateOK, LocalNode, At
  <2>2. n.at = At(f, leaf(n.at).location)
    BY <2>1 DEF DepNode
  <2> QED BY <1>4, <2>1, <2>2, AtFacts
<1> QED BY <1>1, <1>2, <1>3, <1>4, <1>5, <1>6, <1>7, <1>8

LEMMA JoinNodes ==
    ASSUME NEW g, NEW h
    PROVE  /\ nodes_of(Join(g, h)) = nodes_of(g) \cup nodes_of(h)
           /\ Join(g, h).edges = g.edges \cup h.edges
           /\ \A n : in_edges(Join(g, h), n) = in_edges(g, n) \cup in_edges(h, n)
           /\ \A n : out_edges(Join(g, h), n) = out_edges(g, n) \cup out_edges(h, n)
  BY DEF nodes_of, Join, in_edges, out_edges

\* Nodes of what is new are here, in the state, or arguments.
LEMMA NewNodes ==
    ASSUME NEW f, NEW l, NEW s, NEW g, NewGraph(f, l, s, g), NEW n \in nodes_of(g)
    PROVE  root(n.at).location = l \/ n \in s \/ AtStart(f, n)
  BY DEF NewGraph, nodes_of

LEMMA ArgumentIs ==
    ASSUME NEW i
    PROVE  /\ Operand[1] # "Argument" /\ Argument(i)[1] = "Argument" /\ Argument(i)[2] = i
  BY DEF Operand, Argument

\* An edge that makes an argument of what was there is one of a call that is not inlined.
LEMMA ArgumentEdge ==
    ASSUME NEW f, NEW l, NEW s, NEW g, Visiting(f, l, s, g),
           NEW e \in visited(f, code(f)[l], s, At(f, l)).edges,
           e.source_use[1] = "Argument", root(e.from.at).location # l
    PROVE  LET c == code(f)[l]
           IN  /\ e.at = At(f, l) /\ l \in calls(f)
               /\ \/ stands_in(f, c)
                  \/ /\ determine_call_handling(f, c) = "None"
                     /\ \E k \in DOMAIN c.args :
                            /\ c.args[k] # None /\ e.source_use = Argument(k - 1)
                            /\ e.from \in find_data_inputs(f, apply_mutation(f, s, effect(f, c), At(f, l)), c.args[k])
<1> DEFINE c == code(f)[l]
           at == At(f, l)
           v == visited(f, c, s, at)
<1>1. ASSUME NEW S, NEW r, e \in register_mutation(f, S, visit_assign(c.dest, r), at).edges
      PROVE  e.source_use = Operand
  <2>1. PICK m \in visit_assign(c.dest, r) : \E i \in m.inputs : e.source_use = i[2]
    BY <1>1, RegisteredEdge
  <2> QED BY <2>1, AssignMutations
<1>2. c.op \in {"assign", "call"} /\ l \in DOMAIN code(f)
  BY VisitingFacts DEF Visiting
<1>3. CASE c.op = "assign"
  <2>1. v = register_mutation(f, s, visit_assign(c.dest, c.rvalue), at)
    BY <1>3, VisitedIs
  <2>2. e.source_use = Operand
    BY <1>1, <2>1
  <2> QED BY <2>2, ArgumentIs
<1>4. CASE c.op = "call"
  <2>1. l \in calls(f)
    BY <1>2, <1>4 DEF calls
  <2>2. CASE determine_call_handling(f, c) = "Ready"
    <3>1. program \in Programs /\ f \in Fn
      BY DEF Visiting
    <3>2. wanted(f, c) \in built
      BY <2>1, <2>2, <3>1, ReadyFacts
    <3>3. GraphOK(wanted(f, c), pdg[wanted(f, c)]) /\ wanted(f, c) \in Fn
      BY <3>2, VisitingFacts DEF built
    <3>4. v = handle_as_inline(f, c, s, at)
      BY <1>4, <2>2, VisitedIs
    <3>5. InlinedEdge(f, l, s, e)
      BY <3>3, <3>4, InlinedParts
    <3>6. CASE \E d \in pdg[wanted(f, c)].edges : e = pushed_edge(d, GlobalLocation(f, l))
      <4>1. PICK d \in pdg[wanted(f, c)].edges : e = pushed_edge(d, GlobalLocation(f, l))
        BY <3>6
      <4>2. e.from = push_node(d.from, GlobalLocation(f, l))
        BY <4>1 DEF pushed_edge, DepEdge
      <4>3. NodeOK(wanted(f, c), d.from)
        BY <3>3 DEF GraphOK, EdgeOK
      <4> QED BY <3>3, <4>2, <4>3, PushFacts, AtFacts
    <3>7. CASE e.source_use = Operand
      BY <3>7, ArgumentIs
    <3>8. CASE \E d, p : e = returned_edge(f, l, d, p)
      <4>1. e.source_use = Operand
        BY <3>8 DEF returned_edge, DepEdge
      <4> QED BY <4>1, ArgumentIs
    <3> QED BY <3>5, <3>6, <3>7, <3>8 DEF InlinedEdge
  <2>3. ASSUME e \in modular(f, c, s, at).edges
        PROVE  /\ e.at = at
               /\ \E k \in DOMAIN c.args :
                    /\ c.args[k] # None /\ e.source_use = Argument(k - 1)
                    /\ e.from \in find_data_inputs(f, apply_mutation(f, s, effect(f, c), at), c.args[k])
    BY <2>3, ModularEdge, ArgumentIs
  <2>4. CASE determine_call_handling(f, c) = "None"
    <3>1. e \in modular(f, c, s, at).edges
      BY <1>4, <2>4, VisitedIs
    <3> QED BY <2>1, <2>3, <2>4, <3>1
  <2>5. CASE stands_in(f, c)
    <3>1. \/ e \in modular(f, c, s, at).edges
          \/ e \in register_mutation(f, s, visit_assign(c.dest, approximation(f, c)), at).edges
      BY <1>4, <2>5, VisitedIs DEF Join
    <3>2. e \in modular(f, c, s, at).edges
      BY <1>1, <3>1, ArgumentIs
    <3> QED BY <2>1, <2>3, <2>5, <3>2
  <2> QED BY <2>2, <2>4, <2>5, HandlingCases
<1> QED BY <1>2, <1>3, <1>4

LEMMA ConflictLocal ==
    ASSUME NEW f, NEW p, NEW a, is_conflict(f, p, a)
    PROVE  p.local = a.local
  BY DEF is_conflict, Conflict

\* Such an edge says nothing new of another call.
LEMMA OtherCall ==
    ASSUME NEW f, NEW l, NEW s, NEW g, Visiting(f, l, s, g),
           NEW e \in visited(f, code(f)[l], s, At(f, l)).edges, NEW n \in nodes_of(g), e.from = n,
           e.source_use[1] = "Argument", NEW c \in calls_at(leaf(n.at)), ~stands_in(leaf(n.at).function, c)
    PROVE  into_future(e) \/ (is_inlined(g, n.at) /\ unmarked_arguments(c))
<1> DEFINE i == code(f)[l]
           at == At(f, l)
           ps == effect(f, i)
           k == leaf(n.at).location
<1>1. /\ root(n.at).location # l /\ f \in Fn /\ program \in Programs
      /\ CallsApart /\ CallsMarked /\ GraphTold(g)
  BY VisitingFacts DEF Visiting
<1>2. e.at = at /\ l \in calls(f)
  BY <1>1, ArgumentEdge
<1>3. CASE stands_in(f, i)
  <2>1. leaf(e.at) = GlobalLocation(f, l) /\ calls_at(leaf(e.at)) = {i} /\ leaf(e.at).function = f
    BY <1>1, <1>2, CallThere, AtFacts
  <2> QED BY <1>3, <2>1 DEF into_future
<1>4. CASE ~stands_in(f, i)
  <2>1. determine_call_handling(f, i) = "None"
    BY <1>1, <1>4, ArgumentEdge
  <2>2. PICK j \in DOMAIN i.args :
            i.args[j] # None /\ n \in find_data_inputs(f, apply_mutation(f, s, ps, at), i.args[j])
    BY <1>1, <1>4, ArgumentEdge
  <2> DEFINE a == i.args[j]
  <2>3. a \in places(i.args)
    BY <2>2 DEF places
  <2>4. plain(f, a)
    BY <1>1, <1>2, <2>3 DEF CallsApart, CallApart
  <2>5. n \in apply_mutation(f, s, ps, at) /\ is_conflict(f, n.place, a)
    <3>1. ~(n = DepNode(a, At(f, Start)))
      <4>1. is_real(k)
        BY CallAt
      <4>2. n = DepNode(a, At(f, Start)) => leaf(n.at).location = Start
        BY AtFacts DEF DepNode
      <4> QED BY <4>1, <4>2 DEF is_real
    <3> QED BY <2>2, <2>4, <3>1, PlainFacts
  <2>6. ps = places(i.args) \cup {i.dest}
    BY <1>2, <2>1, VisitedIs DEF calls
  <2>7. \A p \in ps : n \notin find_outputs(f, p, at)
    <3>1. ASSUME NEW p, n \in find_outputs(f, p, at) PROVE root(n.at).location = l
      BY <3>1, OutputAt, AtFacts
    <3> QED BY <1>1, <3>1
  <2> HIDE DEF ps, a
  <2>8. n \in s /\ \A p \in ps : \A o \in find_outputs(f, p, at) : n.place # o.place
    BY <2>5, <2>7, AfterFacts
  <2>9. n.place # a
    <3>1. DepNode(a, at) \in find_outputs(f, a, at)
      BY <2>4, PlainFacts
    <3>2. DepNode(a, at).place = a /\ a \in ps
      BY <2>3, <2>6 DEF DepNode
    <3> QED BY <2>8, <3>1, <3>2
  <2>10. /\ leaf(n.at).function = f /\ k \in calls(f) /\ c = code(f)[k] /\ k < l /\ k \in Nat
    <3>1. leaf(n.at) = GlobalLocation(f, k)
      BY <2>8, VisitingFacts
    <3>2. leaf(n.at).function = f
      BY <3>1, AtFacts
    <3>3. k \in 1 .. l - 1 /\ l \in Nat
      BY <2>8, VisitingFacts DEF Visiting
    <3> QED BY <3>2, <3>3, CallAt
  <2>11. CallTold(g, n, f, c)
    BY <1>1, <2>10 DEF GraphTold, NodeTold
  <2>12. CASE ~is_inlined(g, n.at)
    <3>1. n.place \in places(c.args) \cup {c.dest}
      BY <2>11, <2>12 DEF CallTold
    <3>2. CallApart(f, k)
      BY <1>1, <2>10 DEF CallsApart
    <3>3. \A p \in places(c.args) \cup {c.dest} : is_conflict(f, p, a) => p = a
      BY <1>2, <2>3, <2>10, <3>2 DEF CallApart
    <3> QED BY <2>5, <2>9, <3>1, <3>3
  <2>13. CASE is_inlined(g, n.at)
    <3>1. wanted(f, c) # None /\ n.place.local \in written(f, c)
      BY <2>11, <2>13 DEF CallTold
    <3>2. a.local \in written(f, c)
      BY <2>5, <3>1, ConflictLocal
    <3>3. CallMarked(f, k)
      BY <1>1, <2>10 DEF CallsMarked
    <3>4. l > k
      BY <2>10, VisitingFacts
    <3>5. unmarked_arguments(c)
      BY <1>2, <2>3, <2>10, <3>1, <3>2, <3>3, <3>4 DEF CallMarked
    <3> QED BY <2>13, <3>5
  <2> QED BY <2>12, <2>13
<1> QED BY <1>3, <1>4

\* What is told of a node does not change where nothing is added at it.
LEMMA ToldSame ==
    ASSUME NEW g, NEW h, NEW n, NodeTold(g, n),
           in_edges(h, n) = in_edges(g, n),
           is_inlined(h, n.at) <=> is_inlined(g, n.at),
           out_edges(g, n) \subseteq out_edges(h, n),
           \A e \in out_edges(h, n) : \A c \in calls_at(leaf(n.at)) :
                e \notin out_edges(g, n) /\ e.source_use[1] = "Argument"
                        /\ ~stands_in(leaf(n.at).function, c) =>
                    into_future(e) \/ (is_inlined(g, n.at) /\ unmarked_arguments(c))
    PROVE  NodeTold(h, n)
<1> DEFINE f == leaf(n.at).function
<1>1. needs_return_markers(h, n) <=> needs_return_markers(g, n)
  BY DEF needs_return_markers
<1>2. ASSUME NEW c \in calls_at(leaf(n.at)), ~stands_in(f, c)
      PROVE  CallTold(h, n, f, c)
  <2>1. CallTold(g, n, f, c)
    BY <1>2 DEF NodeTold
  <2>2. needs_return_markers(h, n) <=> n.place.local = c.dest.local
    BY <1>1, <2>1 DEF CallTold
  <2>3. CASE is_inlined(g, n.at)
    <3>1. wanted(f, c) # None /\ n.place.local \in written(f, c)
      BY <2>1, <2>3 DEF CallTold
    <3>2. ASSUME NEW e \in out_edges(h, n), e.source_use[1] = "Argument"
          PROVE  unmarked_arguments(c) \/ into_future(e)
      BY <1>2, <2>1, <2>3, <3>2 DEF CallTold
    <3> QED BY <2>2, <2>3, <3>1, <3>2 DEF CallTold
  <2>4. CASE ~is_inlined(g, n.at)
    <3>1. n.place \in places(c.args) \cup {c.dest} /\ ArgumentsTold(g, n, c)
      BY <2>1, <2>4 DEF CallTold
    <3>2. ASSUME NEW e \in out_edges(h, n), e.source_use[1] = "Argument"
          PROVE  \/ \E i \in DOMAIN c.args : c.args[i] = n.place /\ e.source_use = Argument(i - 1)
                 \/ into_future(e)
      BY <1>2, <2>4, <3>1, <3>2 DEF ArgumentsTold
    <3>3. \A i \in DOMAIN c.args : c.args[i] = n.place =>
              \E e \in out_edges(h, n) : e.source_use = Argument(i - 1)
      BY <3>1 DEF ArgumentsTold
    <3>4. ArgumentsTold(h, n, c)
      BY <3>2, <3>3 DEF ArgumentsTold
    <3> QED BY <2>2, <2>4, <3>1, <3>4 DEF CallTold
  <2> QED BY <2>3, <2>4
<1>3. leaf(n.at).location = Start => is_arg(f, n.place)
  BY DEF NodeTold
<1> QED BY <1>2, <1>3 DEF NodeTold

\* A prefix has the same root.
LEMMA BelowRoot ==
    ASSUME NEW f \in Fn, NEW n, NodeOK(f, n), NEW m, Len(m.at) > Len(n.at), \A i \in DOMAIN n.at : m.at[i] = n.at[i]
    PROVE  root(m.at) = root(n.at) /\ Len(m.at) # 1
<1>1. n.at # <<>> /\ Len(n.at) \in Nat /\ Len(n.at) # 0 /\ DOMAIN n.at = 1 .. Len(n.at)
  BY StringFacts DEF NodeOK
<1>2. m.at[1] = n.at[1]
  BY <1>1
<1>3. root(m.at) = root(n.at)
  BY <1>2 DEF root
<1>4. ASSUME Len(m.at) = 1 PROVE FALSE
  <2>1. 1 > Len(n.at)
    BY <1>4
  <2> QED BY <1>1, <2>1
<1> QED BY <1>3, <1>4

\* Nor does it for the nodes that were there.
LEMMA OldTold ==
    ASSUME NEW f, NEW l, NEW s, NEW g, Visiting(f, l, s, g), NEW n \in nodes_of(g)
    PROVE  NodeTold(Join(g, visited(f, code(f)[l], s, At(f, l))), n)
<1> DEFINE v == visited(f, code(f)[l], s, At(f, l))
           h == Join(g, v)
<1>1. root(n.at).location # l /\ NodeOK(f, n) /\ f \in Fn /\ NodeTold(g, n)
  <2>1. GraphOK(f, g) /\ GraphTold(g) /\ f \in Fn /\ root(n.at).location \in {Start} \cup 1 .. l - 1
    BY DEF Visiting
  <2>2. l \notin {Start} \cup 1 .. l - 1
    BY VisitingFacts
  <2>3. NodeOK(f, n)
    BY <2>1 DEF GraphOK, EdgeOK, nodes_of
  <2> QED BY <2>1, <2>2, <2>3 DEF GraphTold
<1>2. NewGraph(f, l, s, v) /\ s \subseteq nodes_of(g)
  BY VisitingFacts DEF Visiting
<1> HIDE DEF v
<1>3. in_edges(v, n) = {}
  BY <1>1, <1>2 DEF in_edges, NewGraph
<1>4. in_edges(h, n) = in_edges(g, n)
  BY <1>3, JoinNodes
<1>5. ASSUME NEW m \in nodes_of(h), Len(m.at) > Len(n.at), \A i \in DOMAIN n.at : m.at[i] = n.at[i]
      PROVE  m \in nodes_of(g)
  <2>1. root(m.at) = root(n.at) /\ Len(m.at) # 1
    BY <1>1, <1>5, BelowRoot
  <2>2. AtStart(f, m) => Len(m.at) = 1
    BY AtFacts DEF AtStart, DepNode
  <2> QED BY <1>1, <1>2, <2>1, <2>2, JoinNodes, NewNodes
<1>6. is_inlined(h, n.at) <=> is_inlined(g, n.at)
  BY <1>5, JoinNodes DEF is_inlined
<1>7. out_edges(g, n) \subseteq out_edges(h, n)
  BY JoinNodes
<1>8. ASSUME NEW e \in out_edges(h, n), NEW c \in calls_at(leaf(n.at)), e \notin out_edges(g, n),
             e.source_use[1] = "Argument", ~stands_in(leaf(n.at).function, c)
      PROVE  into_future(e) \/ (is_inlined(g, n.at) /\ unmarked_arguments(c))
  <2>1. e \in v.edges /\ e.from = n
    BY <1>8, JoinNodes DEF out_edges
  <2> QED BY <1>8, <2>1, OtherCall DEF v
<1> HIDE DEF h
<1>9. NodeTold(h, n)
  BY <1>1, <1>4, <1>6, <1>7, <1>8, ToldSame
<1> QED BY <1>9 DEF h, v

\* What is said of a new node alone is true of it in the whole.
LEMMA NewTold ==
    ASSUME NEW f, NEW l, NEW s, NEW g, Visiting(f, l, s, g),
           NEW v, v = visited(f, code(f)[l], s, At(f, l)),
           NEW n \in nodes_of(v), root(n.at).location = l, NodeTold(v, n), NodeOK(f, n)
    PROVE  NodeTold(Join(g, v), n)
<1> DEFINE h == Join(g, v)
<1>1. n \notin nodes_of(g)
  BY VisitingFacts DEF Visiting
<1>2. in_edges(g, n) = {} /\ out_edges(g, n) = {}
  BY <1>1 DEF nodes_of, in_edges, out_edges
<1>3. ASSUME NEW m \in nodes_of(h), Len(m.at) > Len(n.at), \A i \in DOMAIN n.at : m.at[i] = n.at[i]
      PROVE  m \in nodes_of(v)
  <2>1. root(m.at) = root(n.at)
    BY <1>3, BelowRoot DEF Visiting
  <2>2. m \notin nodes_of(g)
    BY <2>1, VisitingFacts DEF Visiting
  <2> QED BY <2>2, JoinNodes
<1>4. is_inlined(h, n.at) <=> is_inlined(v, n.at)
  BY <1>3, JoinNodes DEF is_inlined
<1>5. in_edges(h, n) = in_edges(v, n) /\ out_edges(h, n) = out_edges(v, n)
  <2>1. /\ in_edges(h, n) = in_edges(g, n) \cup in_edges(v, n)
        /\ out_edges(h, n) = out_edges(g, n) \cup out_edges(v, n)
    BY JoinNodes
  <2> QED BY <1>2, <2>1
<1> HIDE DEF h
<1>6. NodeTold(h, n)
  BY <1>4, <1>5, ToldSame
<1> QED BY <1>6 DEF h

\* An argument of f is told as one.
LEMMA StartTold ==
    ASSUME NEW f, NEW n, AtStart(f, n), NEW g
    PROVE  NodeTold(g, n)
<1>1. leaf(n.at) = GlobalLocation(f, Start) /\ is_arg(f, n.place)
  BY AtFacts DEF AtStart, DepNode
<1>2. calls_at(leaf(n.at)) = {} /\ leaf(n.at).function = f
  BY <1>1, AtFacts DEF calls_at, is_real
<1> QED BY <1>1, <1>2 DEF NodeTold

-----------------------------------------------------------------------------
(***************************************************************************)
(* What a new graph tells of its own nodes.                                *)
(***************************************************************************)
LEMMA HereTold ==
    ASSUME NEW f \in Fn, program \in Programs, NEW l \in DOMAIN code(f), NEW v, NEW n, n = DepNode(n.place, At(f, l)),
           code(f)[l].op = "call" /\ ~stands_in(f, code(f)[l]) => CallTold(v, n, f, code(f)[l])
    PROVE  NodeTold(v, n)
<1>1. n.at = At(f, l)
  BY DEF DepNode
<1>2. leaf(n.at) = GlobalLocation(f, l) /\ leaf(n.at).function = f /\ leaf(n.at).location = l
  BY <1>1, AtFacts
<1>3. is_real(l)
  BY LocationsAssumption DEF code
<1>4. \A c \in calls_at(leaf(n.at)) : c = code(f)[l] /\ c.op = "call"
  BY <1>2, CallAt
<1> QED BY <1>2, <1>3, <1>4 DEF NodeTold, is_real

\* An output of an approximated call is an input if it is followed.
LEMMA FilledInput ==
    ASSUME NEW f, NEW l, NEW s, NEW g, Visiting(f, l, s, g), NEW a, plain(f, a), filled(f, l, a)
    PROVE  find_data_inputs(f, s, a) # {}
<1>1. CASE is_arg(f, a)
  <2>1. DepNode(a, At(f, Start)) \in find_data_inputs(f, s, a)
    BY <1>1, PlainFacts
  <2> QED BY <2>1
<1>2. CASE a.projection = <<>> /\ \E k \in 1 .. l - 1 : leaves(returning, f, code(f)[k], a.local)
  <2>1. PICK k \in 1 .. l - 1 : leaves(returning, f, code(f)[k], a.local)
    BY <1>2
  <2>2. a.local = code(f)[k].dest.local
    BY <2>1 DEF leaves, Local, Place
  <2>3. PICK n \in s : n.place.local = a.local
    BY <2>1, <2>2 DEF Visiting
  <2>4. is_conflict(f, n.place, a)
    BY <1>2, <2>3 DEF is_conflict, Conflict, IsRestriction
  <2>5. n \in find_data_inputs(f, s, a)
    BY <2>3, <2>4, PlainFacts
  <2> QED BY <2>5
<1> QED BY <1>1, <1>2 DEF filled

\* A call that is approximated tells of its arguments and its result.
LEMMA NoneTold ==
    ASSUME NEW f, NEW l, NEW s, NEW g, Visiting(f, l, s, g), l \in calls(f),
           determine_call_handling(f, code(f)[l]) = "None",
           NEW v, v = modular(f, code(f)[l], s, At(f, l)), NEW n \in nodes_of(v), root(n.at).location = l
    PROVE  NodeTold(v, n)
<1> DEFINE c == code(f)[l]
           at == At(f, l)
           ps == places(c.args) \cup {c.dest}
           after_ == apply_mutation(f, s, effect(f, c), at)
<1>1. /\ f \in Fn /\ program \in Programs /\ l \in DOMAIN code(f) /\ CallApart(f, l)
      /\ c.op = "call" /\ effect(f, c) = ps
  BY VisitedIs DEF Visiting, CallsApart, calls
<1>2. /\ c.dest # None /\ aliases(code(f), c.dest) = {c.dest}
      /\ \A a \in places(c.args) : plain(f, a) /\ filled(f, l, a) /\ c.dest.local # a.local /\ a # c.dest
  <2>1. borrows(code(f), c.dest.local) = {} /\ c.dest # None
    BY <1>1 DEF CallApart
  <2>2. aliases(code(f), c.dest) = {c.dest}
    BY <2>1 DEF aliases
  <2>3. \A a \in places(c.args) : plain(f, a) /\ filled(f, l, a) /\ c.dest.local \notin borrowed(f, a.local)
    BY <1>1 DEF CallApart
  <2> QED BY <2>1, <2>2, <2>3 DEF borrowed
<1>3. \A a \in ps : find_outputs(f, a, at) = {DepNode(a, at)}
  <2>1. find_outputs(f, c.dest, at) = {DepNode(c.dest, at)}
    BY <1>2 DEF find_outputs
  <2> QED BY <1>2, <2>1, PlainFacts
<1>4. \A a, b : DepNode(a, at) = DepNode(b, at) => a = b
  BY DEF DepNode
<1>5. \A m \in after_ : m \in s \/ \E a \in ps : m = DepNode(a, at)
  BY <1>1, <1>3, AfterFacts
<1>6. \A a \in ps : DepNode(a, at) \in after_
  BY <1>1, <1>3, AfterFacts
<1>7. ASSUME NEW m, m \in s \/ AtStart(f, m) PROVE root(m.at).location # l /\ Len(m.at) = 1
  <2>1. CASE m \in s
    BY <2>1, VisitingFacts
  <2>2. CASE AtStart(f, m)
    BY <2>2, VisitingFacts, AtFacts DEF AtStart, DepNode
  <2> QED BY <1>7, <2>1, <2>2
<1>8. ASSUME NEW m \in nodes_of(v), root(m.at).location = l
      PROVE  \E a \in ps : m = DepNode(a, at)
  <2>1. CASE m \in v.nodes
    BY <1>3, <2>1, ModularHas
  <2>2. CASE \E e \in v.edges : m = e.to
    <3>1. PICK e \in v.edges : m = e.to
      BY <2>2
    <3>2. \E a \in ps : e.to \in find_outputs(f, a, at)
      BY <3>1, ModularEdge DEF places
    <3> QED BY <1>3, <3>1, <3>2
  <2>3. CASE \E e \in v.edges : m = e.from
    <3>1. PICK e \in v.edges : m = e.from
      BY <2>3
    <3>2. \E p : m \in find_data_inputs(f, s, p) \/ m \in find_data_inputs(f, after_, p)
      BY <3>1, ModularEdge
    <3>3. m \in s \/ AtStart(f, m) \/ m \in after_
      BY <3>2, InputFrom
    <3> QED BY <1>5, <1>7, <1>8, <3>3
  <2> QED BY <2>1, <2>2, <2>3 DEF nodes_of
<1>9. PICK p \in ps : n = DepNode(p, at)
  BY <1>8
<1>10. n.place = p /\ n.at = at /\ n = DepNode(n.place, at) /\ p # None
  BY <1>2, <1>9 DEF DepNode, places
<1> HIDE DEF after_
<1>11. ~is_inlined(v, n.at)
  <2>1. ASSUME NEW m \in nodes_of(v) PROVE Len(m.at) = 1
    <3>1. CASE root(m.at).location = l
      <4>1. m.at = at
        BY <1>8, <3>1 DEF DepNode
      <4> QED BY <4>1, AtFacts
    <3>2. CASE root(m.at).location # l
      <4>1. NewGraph(f, l, s, v)
        BY ModularNew
      <4> QED BY <1>7, <3>2, <4>1, NewNodes
    <3> QED BY <3>1, <3>2
  <2> QED BY <1>10, <2>1, AtFacts DEF is_inlined
<1>12. \A k \in DOMAIN c.args : c.args[k] # None => c.args[k] \in places(c.args)
  BY DEF places
<1>13. ASSUME NEW k \in DOMAIN c.args, c.args[k] # None, NEW m \in find_data_inputs(f, after_, c.args[k])
       PROVE  DepEdge(m, DepNode(c.dest, at), at, Argument(k - 1), Return) \in v.edges
  BY <1>3, <1>13, ModularHas DEF after_
<1>14. ASSUME NEW k \in DOMAIN c.args, c.args[k] # None
       PROVE  DepNode(c.args[k], at) \in find_data_inputs(f, after_, c.args[k])
  <2>1. plain(f, c.args[k]) /\ DepNode(c.args[k], at) \in after_
    BY <1>2, <1>6, <1>12, <1>14
  <2>2. DepNode(c.args[k], at).place = c.args[k]
    BY DEF DepNode
  <2> QED BY <2>1, <2>2, PlainFacts
<1>15. needs_return_markers(v, n) <=> n.place.local = c.dest.local
  <2>1. CASE p = c.dest
    <3>1. ASSUME in_edges(v, n) # {} PROVE \E e \in in_edges(v, n) : e.at = n.at /\ e.target_use = Return
      <4>1. PICK e \in v.edges : e.to = n
        BY <3>1 DEF in_edges
      <4>2. ASSUME NEW a \in places(c.args), e.to \in find_outputs(f, a, at) PROVE FALSE
        BY <1>2, <1>3, <1>4, <1>9, <2>1, <4>1, <4>2
      <4>3. e.at = at /\ e.target_use = Return
        BY <4>1, <4>2, ModularEdge
      <4> QED BY <1>10, <4>1, <4>3 DEF in_edges
    <3> QED BY <1>10, <2>1, <3>1 DEF needs_return_markers
  <2>2. CASE p # c.dest
    <3>1. p \in places(c.args)
      BY <2>2
    <3>2. in_edges(v, n) # {}
      <4>1. PICK m : m \in find_data_inputs(f, s, p)
        BY <1>2, <3>1, FilledInput
      <4>2. n \in find_outputs(f, p, at)
        BY <1>3, <1>9
      <4>3. DepEdge(m, n, at, Operand, Assign) \in v.edges
        BY <3>1, <4>1, <4>2, ModularHas
      <4>4. DepEdge(m, n, at, Operand, Assign).to = n
        BY DEF DepEdge
      <4> QED BY <4>3, <4>4 DEF in_edges
    <3>3. ASSUME NEW e \in in_edges(v, n) PROVE e.target_use # Return
      <4>1. e \in v.edges /\ e.to = n
        BY DEF in_edges
      <4>2. e.to \notin find_outputs(f, c.dest, at)
        BY <1>3, <1>4, <1>9, <2>2, <4>1
      <4>3. e.target_use = Assign
        BY <4>1, <4>2, ModularEdge
      <4> QED BY <4>3 DEF Assign, Return
    <3>4. p.local # c.dest.local
      BY <1>2, <3>1
    <3> QED BY <1>10, <3>2, <3>3, <3>4 DEF needs_return_markers
  <2> QED BY <2>1, <2>2
<1>16. ArgumentsTold(v, n, c)
  <2>1. ASSUME NEW k \in DOMAIN c.args, c.args[k] = n.place
        PROVE  \E e \in out_edges(v, n) : e.source_use = Argument(k - 1)
    <3> DEFINE e == DepEdge(n, DepNode(c.dest, at), at, Argument(k - 1), Return)
    <3>1. c.args[k] # None /\ n = DepNode(c.args[k], at)
      BY <1>10, <2>1
    <3>2. e \in v.edges
      BY <1>13, <1>14, <3>1
    <3>3. e.from = n /\ e.source_use = Argument(k - 1)
      BY DEF DepEdge
    <3> QED BY <3>2, <3>3 DEF out_edges
  <2>2. ASSUME NEW e \in out_edges(v, n), e.source_use[1] = "Argument"
        PROVE  \E k \in DOMAIN c.args : c.args[k] = n.place /\ e.source_use = Argument(k - 1)
    <3>1. e \in v.edges /\ e.from = n
      BY DEF out_edges
    <3>2. PICK k \in DOMAIN c.args : /\ c.args[k] # None /\ n \in find_data_inputs(f, after_, c.args[k])
                                     /\ e.source_use = Argument(k - 1)
      BY <2>2, <3>1, ModularEdge, ArgumentIs DEF after_
    <3>3. plain(f, c.args[k]) /\ c.args[k] \in places(c.args)
      BY <1>2, <1>12, <3>2
    <3>4. n # DepNode(c.args[k], At(f, Start))
      <4>1. n.at # At(f, Start)
        BY <1>10, AtFacts, VisitingFacts
      <4> QED BY <4>1 DEF DepNode
    <3>5. is_conflict(f, n.place, c.args[k])
      BY <3>2, <3>3, <3>4, PlainFacts
    <3>6. n.place = c.args[k]
      BY <1>1, <1>10, <3>3, <3>5 DEF CallApart
    <3> QED BY <3>2, <3>6
  <2> QED BY <2>1, <2>2 DEF ArgumentsTold
<1>17. CallTold(v, n, f, c)
  BY <1>10, <1>11, <1>15, <1>16 DEF CallTold
<1> QED BY <1>1, <1>10, <1>17, HereTold

\* A place of the callee is, for the caller, a part of the destination or of an operand.
LEMMA TranslatedFrom ==
    ASSUME NEW f, NEW c, NEW w, w = wanted(f, c), program.argc[w] \in Nat,
           NEW child, child.local \in 0 .. program.argc[w],
           NEW p \in translated(f, c, child)
    PROVE  /\ child.local = RETURN_PLACE => p.local = c.dest.local
           /\ child.local # RETURN_PLACE => \E op \in operands_of(f, c) : p.local = op.local
<1> DEFINE conv == calling_convention(f, c)
           n == program.argc[w]
<1>1. conv.kind \in {"Direct", "Indirect", "Async"} /\ operands_of(f, c) = passed(conv, n) \ {None}
  BY ConventionKind DEF operands_of
<1>2. PICK t \in handle_translate(conv, c.dest, child) :
          p = project_deeper(t.base, t.projection) \/ p = t.base
  BY DEF translated, translate_to_parent
<1> HIDE DEF conv, n
<1>3. \A q, s : project_deeper(q, s).local = q.local
  BY DEF project_deeper, Place
<1>4. p.local = t.base.local
  BY <1>2, <1>3
<1>5. ASSUME NEW op \in passed(conv, n), NEW more, NEW rest, t \in OfOperand(op, more, rest)
      PROVE  op \in operands_of(f, c) /\ t.base.local = op.local
  <2>1. op # None /\ t = Translation(project_deeper(op, more), rest)
    BY <1>5 DEF OfOperand
  <2> QED BY <1>1, <1>3, <2>1 DEF Translation
<1>6. CASE child.local = RETURN_PLACE
  <2>1. child.local = 0
    BY <1>6 DEF RETURN_PLACE
  <2>2. \E q \in {c.dest, project_deeper(c.dest, poll_ready)} :
            handle_translate(conv, c.dest, child) = {Translation(q, child.projection)}
    BY <1>1, <2>1 DEF handle_translate, RETURN_PLACE
  <2> QED BY <1>2, <1>3, <1>4, <1>6, <2>2 DEF Translation
<1>7. CASE child.local # RETURN_PLACE
  <2>1. child.local \in 1 .. n /\ n \in Nat
    BY <1>7 DEF RETURN_PLACE, n
  <2>2. CASE conv.kind = "Direct"
    <3>1. handle_translate(conv, c.dest, child) =
              OfOperand(conv.args[child.local], <<>>, child.projection)
      BY <1>7, <2>2 DEF handle_translate
    <3>2. conv.args[child.local] \in passed(conv, n)
      BY <2>1, <2>2 DEF passed
    <3> QED BY <1>2, <1>4, <1>5, <1>7, <3>1, <3>2
  <2>3. CASE conv.kind = "Async"
    <3>1. child.local = 1
      <4>1. child.local = 1 \/ child.local > 1
        BY <2>1
      <4>2. child.local > 1 => handle_translate(conv, c.dest, child) = {}
        BY <1>7, <2>3 DEF handle_translate
      <4> QED BY <1>2, <4>1, <4>2
    <3>2. handle_translate(conv, c.dest, child) =
              OfOperand(conv.generator_data, <<>>, child.projection)
      BY <1>7, <2>3, <3>1 DEF handle_translate
    <3>3. conv.generator_data \in passed(conv, n)
      BY <2>3 DEF passed
    <3> QED BY <1>2, <1>4, <1>5, <1>7, <3>2, <3>3
  <2>4. CASE conv.kind = "Indirect"
    <3>1. conv.closure_arg \in passed(conv, n) /\ conv.tupled_arguments \in passed(conv, n)
      BY <2>4 DEF passed
    <3>2. CASE child.local = 1
      <4>1. handle_translate(conv, c.dest, child) =
              IF conv.once_shim
              THEN IF child.projection = <<>> THEN {}
                   ELSE OfOperand(conv.closure_arg, <<>>, Tail(child.projection))
              ELSE OfOperand(conv.closure_arg, <<>>, child.projection)
        BY <1>7, <2>4, <3>2 DEF handle_translate
      <4> QED BY <1>2, <1>4, <1>5, <1>7, <3>1, <4>1
    <3>3. CASE child.local > 1
      <4>1. handle_translate(conv, c.dest, child) =
              OfOperand(conv.tupled_arguments, <<tupled(child.local)>>, child.projection)
        BY <1>7, <2>4, <3>3 DEF handle_translate
      <4> QED BY <1>2, <1>4, <1>5, <1>7, <3>1, <4>1
    <3> QED BY <2>1, <3>2, <3>3
  <2> QED BY <1>1, <2>2, <2>3, <2>4
<1> QED BY <1>6, <1>7

\* A return place has a counterpart in the caller.
LEMMA ReturnTranslated ==
    ASSUME NEW f, NEW c, NEW child, child.local = RETURN_PLACE
    PROVE  translated(f, c, child) # {}
<1> DEFINE conv == calling_convention(f, c)
<1>1. conv.kind \in {"Direct", "Indirect", "Async"}
  BY ConventionKind
<1> HIDE DEF conv
<1>2. PICK t : t \in handle_translate(conv, c.dest, child)
  BY <1>1 DEF handle_translate, RETURN_PLACE
<1> QED BY <1>2 DEF translated, translate_to_parent, conv

LEMMA AliasLocal ==
    ASSUME NEW f, NEW q, NEW p \in aliases(code(f), q)
    PROVE  /\ p.local \in borrowed(f, q.local)
           /\ borrows(code(f), q.local) = {} => p = q
<1>1. CASE p = q
  BY <1>1 DEF borrowed
<1>2. CASE /\ borrows(code(f), q.local) # {}
           /\ \E r \in borrows(code(f), q.local) : p = project_deeper(r, Tail(q.projection))
  <2>1. PICK r \in borrows(code(f), q.local) : p = project_deeper(r, Tail(q.projection))
    BY <1>2
  <2>2. p.local = r.local
    BY <2>1 DEF project_deeper, Place
  <2> QED BY <1>2, <2>2 DEF borrowed
<1> QED BY <1>1, <1>2 DEF aliases

\* What an inlined call writes.
LEMMA ReturnedLocal ==
    ASSUME NEW f, NEW l, CallApart(f, l), NEW w, w = wanted(f, code(f)[l]), w # None, program.argc[w] \in Nat,
           NEW d, NEW p, Returned(f, code(f)[l], d, p)
    PROVE  LET c == code(f)[l]
           IN  /\ p.local \in written(f, c)
               /\ d.place.local = RETURN_PLACE <=> p.local = c.dest.local
<1> DEFINE c == code(f)[l]
<1>1. PICK q \in translated(f, c, d.place) : p \in aliases(code(f), q)
  BY DEF Returned
<1>2. d.place.local \in 0 .. program.argc[w]
  BY DEF Returned, parentable_dsts, parentable
<1>3. p.local \in borrowed(f, q.local) /\ (borrows(code(f), q.local) = {} => p = q)
  BY <1>1, AliasLocal
<1>4. /\ borrows(code(f), c.dest.local) = {}
      /\ \A op \in operands_of(f, c) : c.dest.local \notin borrowed(f, op.local)
  BY DEF CallApart
<1>5. CASE d.place.local = RETURN_PLACE
  <2>1. q.local = c.dest.local
    BY <1>1, <1>2, <1>5, TranslatedFrom
  <2>2. p.local = c.dest.local
    BY <1>3, <1>4, <2>1
  <2> QED BY <1>5, <2>2 DEF written
<1>6. CASE d.place.local # RETURN_PLACE
  <2>1. PICK op \in operands_of(f, c) : q.local = op.local
    BY <1>1, <1>2, <1>6, TranslatedFrom
  <2>2. p.local \in borrowed(f, op.local) /\ p.local # c.dest.local
    BY <1>3, <1>4, <2>1
  <2> QED BY <1>6, <2>2 DEF written
<1> QED BY <1>5, <1>6

LEMMA PushedAt ==
    ASSUME NEW w \in Fn, NEW k, NodeOK(w, k), NEW loc
    PROVE  \A i \in 1 .. Len(k.at) : push_front(k.at, loc)[i + 1] = k.at[i]
<1> DEFINE ds == push_front(k.at, loc)
<1>1. StringOK(w, k.at)
  BY DEF NodeOK
<1>2. /\ Tail(ds) = k.at /\ leaf(ds) = leaf(k.at) /\ ds[1] = loc
      /\ Len(ds) = Len(k.at) + 1 /\ \A i \in 1 .. Len(k.at) : ds[i + 1] = k.at[i]
      /\ ds \in Seq({loc} \cup locations(k.at))
  BY <1>1, PushedTail
<1> QED BY <1>2

\* A node of a callee tells the same in its place below the call.
Below(g, loc, h) ==
    /\ \A k \in nodes_of(g) : push_node(k, loc) \in nodes_of(h)
    /\ \A e \in g.edges : pushed_edge(e, loc) \in h.edges
    /\ \A n \in nodes_of(h) : Len(n.at) # 1 => \E k \in nodes_of(g) : n = push_node(k, loc)
    /\ \A e \in h.edges :
        \/ \E d \in g.edges : e = pushed_edge(d, loc)
        \/ /\ Len(e.to.at) = 1 \/ leaf(e.to.at).location = Start
           /\ e.source_use = Operand

LEMMA PushedTold ==
    ASSUME NEW w \in Fn, NEW g, GraphOK(w, g), NEW loc, NEW h, Below(g, loc, h),
           NEW k \in nodes_of(g), NodeTold(g, k)
    PROVE  NodeTold(h, push_node(k, loc))
<1> DEFINE n == push_node(k, loc)
           f == leaf(n.at).function
<1>1. \A j \in nodes_of(g) : NodeOK(w, j)
  BY DEF GraphOK, EdgeOK, nodes_of
<1>2. /\ n.place = k.place /\ leaf(n.at) = leaf(k.at) /\ n.at = push_front(k.at, loc)
      /\ Len(n.at) = Len(k.at) + 1 /\ Len(k.at) \in Nat /\ Len(k.at) # 0
      /\ DOMAIN n.at = 1 .. Len(k.at) + 1 /\ DOMAIN k.at = 1 .. Len(k.at)
      /\ n.at[1] = loc /\ \A i \in 1 .. Len(k.at) : n.at[i + 1] = k.at[i]
  BY <1>1, PushFacts
<1>3. ASSUME NEW j \in nodes_of(g), push_node(j, loc) = n PROVE j = k
  <2>1. j = DepNode(j.place, j.at) /\ k = DepNode(k.place, k.at)
    BY <1>1 DEF NodeOK
  <2>2. j.place = k.place /\ j.at = k.at
    <3>1. push_node(j, loc).place = j.place /\ push_node(j, loc).at = push_front(j.at, loc)
          /\ Tail(push_front(j.at, loc)) = j.at
      BY <1>1, PushFacts
    <3>2. push_node(k, loc).place = k.place /\ push_node(k, loc).at = push_front(k.at, loc)
          /\ Tail(push_front(k.at, loc)) = k.at
      BY <1>1, PushFacts
    <3> QED BY <1>3, <3>1, <3>2
  <2> QED BY <2>1, <2>2
<1>4. ASSUME NEW d \in g.edges
      PROVE  LET e == pushed_edge(d, loc)
             IN  /\ e.from = push_node(d.from, loc) /\ e.to = push_node(d.to, loc)
                 /\ e.source_use = d.source_use /\ e.target_use = d.target_use
                 /\ leaf(e.at) = leaf(d.at) /\ (e.at = n.at <=> d.at = k.at)
                 /\ d.from \in nodes_of(g) /\ d.to \in nodes_of(g)
  <2> DEFINE e == pushed_edge(d, loc)
  <2>1. /\ e.from = push_node(d.from, loc) /\ e.to = push_node(d.to, loc)
        /\ e.source_use = d.source_use /\ e.target_use = d.target_use
        /\ e.at = push_front(d.at, loc)
    BY DEF pushed_edge, DepEdge
  <2>2. StringOK(w, d.at)
    BY DEF GraphOK, EdgeOK
  <2>3. leaf(push_front(d.at, loc)) = leaf(d.at) /\ Tail(push_front(d.at, loc)) = d.at
    BY <2>2, PushedTail
  <2>4. Tail(push_front(k.at, loc)) = k.at
    BY <1>1, PushFacts
  <2>5. d.from \in nodes_of(g) /\ d.to \in nodes_of(g)
    BY DEF nodes_of
  <2> HIDE DEF e, n
  <2>6. leaf(e.at) = leaf(d.at) /\ (e.at = n.at <=> d.at = k.at)
    BY <1>2, <2>1, <2>3, <2>4
  <2> QED BY <2>1, <2>5, <2>6 DEF e
<1>5. leaf(n.at).location = Start => is_arg(f, n.place)
  BY <1>2 DEF NodeTold
<1>6. Len(n.at) # 1
  BY <1>2
<1> HIDE DEF n
<1>7. ASSUME leaf(n.at).location # Start
      PROVE  needs_return_markers(h, n) <=> needs_return_markers(g, k)
  <2>1. ASSUME NEW e \in in_edges(h, n)
        PROVE  \E d \in in_edges(g, k) : e = pushed_edge(d, loc)
    <3>1. e \in h.edges /\ e.to = n
      BY DEF in_edges
    <3>2. PICK d \in g.edges : e = pushed_edge(d, loc)
      BY <1>6, <1>7, <3>1 DEF Below
    <3>3. d.to = k
      BY <1>3, <1>4, <3>1, <3>2
    <3> QED BY <3>2, <3>3 DEF in_edges
  <2>2. ASSUME NEW d \in in_edges(g, k) PROVE pushed_edge(d, loc) \in in_edges(h, n)
    <3>1. d \in g.edges /\ d.to = k
      BY DEF in_edges
    <3>2. pushed_edge(d, loc) \in h.edges
      BY <3>1 DEF Below
    <3> QED BY <1>4, <3>1, <3>2 DEF in_edges, n
  <2>3. \A d \in in_edges(g, k) : d \in g.edges
    BY DEF in_edges
  <2> QED BY <1>4, <2>1, <2>2, <2>3 DEF needs_return_markers
<1>8. is_inlined(h, n.at) <=> is_inlined(g, k.at)
  <2>1. ASSUME NEW j \in nodes_of(g)
        PROVE  /\ Len(push_node(j, loc).at) > Len(n.at) <=> Len(j.at) > Len(k.at)
               /\ (\A i \in DOMAIN n.at : push_node(j, loc).at[i] = n.at[i]) <=>
                  (\A i \in DOMAIN k.at : push_front(j.at, loc)[i + 1] = k.at[i])
    <3>1. /\ push_node(j, loc).at = push_front(j.at, loc) /\ Len(push_front(j.at, loc)) = Len(j.at) + 1
          /\ push_front(j.at, loc)[1] = loc /\ Len(j.at) \in Nat
      BY <1>1, PushFacts
    <3>2. (\A i \in DOMAIN n.at : push_node(j, loc).at[i] = n.at[i]) <=>
                  (\A i \in 2 .. Len(k.at) + 1 : push_front(j.at, loc)[i] = n.at[i])
      BY <1>2, <3>1
    <3>3. (\A i \in 2 .. Len(k.at) + 1 : push_front(j.at, loc)[i] = n.at[i]) <=>
              (\A i \in 1 .. Len(k.at) : push_front(j.at, loc)[i + 1] = n.at[i + 1])
      <4>1. ASSUME \A i \in 1 .. Len(k.at) : push_front(j.at, loc)[i + 1] = n.at[i + 1],
                   NEW i \in 2 .. Len(k.at) + 1
            PROVE  push_front(j.at, loc)[i] = n.at[i]
        <5>1. i - 1 \in 1 .. Len(k.at) /\ (i - 1) + 1 = i
          BY <1>2
        <5> QED BY <4>1, <5>1
      <4>2. \A i \in 1 .. Len(k.at) : i + 1 \in 2 .. Len(k.at) + 1
        BY <1>2
      <4> QED BY <4>1, <4>2
    <3>4. (\A i \in 1 .. Len(k.at) : push_front(j.at, loc)[i + 1] = n.at[i + 1]) <=>
              (\A i \in DOMAIN k.at : push_front(j.at, loc)[i + 1] = k.at[i])
      BY <1>2
    <3>5. Len(push_node(j, loc).at) > Len(n.at) <=> Len(j.at) > Len(k.at)
      BY <1>2, <3>1
    <3> QED BY <3>2, <3>3, <3>4, <3>5
  <2>2. ASSUME NEW j \in nodes_of(g), Len(j.at) > Len(k.at)
        PROVE  \A i \in DOMAIN k.at : push_front(j.at, loc)[i + 1] = j.at[i]
    <3> DEFINE ds == push_front(j.at, loc)
    <3>1. Len(j.at) \in Nat /\ \A i \in 1 .. Len(j.at) : ds[i + 1] = j.at[i]
      <4>1. NodeOK(w, j)
        BY <1>1
      <4> HIDE DEF ds
      <4>2. Len(j.at) \in Nat
        BY <4>1, PushFacts
      <4>3. \A i \in 1 .. Len(j.at) : ds[i + 1] = j.at[i]
        BY <4>1, PushedAt DEF ds
      <4> QED BY <4>2, <4>3
    <3>2. \A i \in DOMAIN k.at : i \in 1 .. Len(j.at)
      BY <1>2, <2>2, <3>1
    <3> QED BY <3>1, <3>2
  <2>3. ASSUME NEW j \in nodes_of(g)
        PROVE  (Len(push_node(j, loc).at) > Len(n.at) /\ \A i \in DOMAIN n.at : push_node(j, loc).at[i] = n.at[i])
                <=> (Len(j.at) > Len(k.at) /\ \A i \in DOMAIN k.at : j.at[i] = k.at[i])
    BY <2>1, <2>2
  <2>4. ASSUME NEW m \in nodes_of(h), Len(m.at) > Len(n.at)
        PROVE  \E j \in nodes_of(g) : m = push_node(j, loc)
    <3>1. Len(m.at) # 1
      <4>1. ASSUME Len(m.at) = 1 PROVE FALSE
        BY <1>2, <2>4, <4>1
      <4> QED BY <4>1
    <3> QED BY <3>1 DEF Below
  <2>5. \A j \in nodes_of(g) : push_node(j, loc) \in nodes_of(h)
    BY DEF Below
  <2>6. ASSUME is_inlined(h, n.at) PROVE is_inlined(g, k.at)
    <3>1. PICK m \in nodes_of(h) : Len(m.at) > Len(n.at) /\ \A i \in DOMAIN n.at : m.at[i] = n.at[i]
      BY <2>6 DEF is_inlined
    <3>2. PICK j \in nodes_of(g) : m = push_node(j, loc)
      BY <2>4, <3>1
    <3> QED BY <2>3, <3>1, <3>2 DEF is_inlined
  <2>7. ASSUME is_inlined(g, k.at) PROVE is_inlined(h, n.at)
    <3>1. PICK j \in nodes_of(g) : Len(j.at) > Len(k.at) /\ \A i \in DOMAIN k.at : j.at[i] = k.at[i]
      BY <2>7 DEF is_inlined
    <3> QED BY <2>3, <2>5, <3>1 DEF is_inlined
  <2> QED BY <2>6, <2>7
<1>9. ASSUME NEW e \in out_edges(h, n), e.source_use[1] = "Argument"
      PROVE  \E d \in out_edges(g, k) :
                d.source_use = e.source_use /\ (into_future(d) => into_future(e))
  <2>1. e \in h.edges /\ e.from = n
    BY DEF out_edges
  <2>2. PICK d \in g.edges : e = pushed_edge(d, loc)
    BY <1>9, <2>1, ArgumentIs DEF Below
  <2>3. d.from = k /\ leaf(e.at) = leaf(d.at) /\ d.source_use = e.source_use
    BY <1>3, <1>4, <2>1, <2>2
  <2> QED BY <2>3 DEF out_edges, into_future
<1>10. ASSUME NEW d \in out_edges(g, k)
       PROVE  \E e \in out_edges(h, n) : e.source_use = d.source_use
  <2>1. d \in g.edges /\ d.from = k
    BY DEF out_edges
  <2>2. pushed_edge(d, loc) \in h.edges
    BY <2>1 DEF Below
  <2>3. pushed_edge(d, loc).from = n /\ pushed_edge(d, loc).source_use = d.source_use
    BY <1>4, <2>1 DEF n
  <2> QED BY <2>2, <2>3 DEF out_edges
<1>11. ASSUME NEW c \in calls_at(leaf(n.at)), ~stands_in(f, c)
       PROVE  CallTold(h, n, f, c)
  <2>1. CallTold(g, k, f, c)
    BY <1>2, <1>11 DEF NodeTold
  <2>2. leaf(n.at).location # Start
    BY <1>11, CallAt DEF is_real
  <2>3. needs_return_markers(h, n) <=> n.place.local = c.dest.local
    BY <1>2, <1>7, <2>1, <2>2 DEF CallTold
  <2>4. CASE is_inlined(g, k.at)
    <3>1. wanted(f, c) # None /\ n.place.local \in written(f, c)
      BY <1>2, <2>1, <2>4 DEF CallTold
    <3>2. ASSUME NEW e \in out_edges(h, n), e.source_use[1] = "Argument"
          PROVE  unmarked_arguments(c) \/ into_future(e)
      BY <1>9, <2>1, <2>4, <3>2 DEF CallTold
    <3> QED BY <1>8, <2>3, <2>4, <3>1, <3>2 DEF CallTold
  <2>5. CASE ~is_inlined(g, k.at)
    <3>1. n.place \in places(c.args) \cup {c.dest} /\ ArgumentsTold(g, k, c)
      BY <1>2, <2>1, <2>5 DEF CallTold
    <3>2. ASSUME NEW e \in out_edges(h, n), e.source_use[1] = "Argument"
          PROVE  \/ \E i \in DOMAIN c.args : c.args[i] = n.place /\ e.source_use = Argument(i - 1)
                 \/ into_future(e)
      BY <1>2, <1>9, <3>1, <3>2 DEF ArgumentsTold
    <3>3. \A i \in DOMAIN c.args : c.args[i] = n.place =>
              \E e \in out_edges(h, n) : e.source_use = Argument(i - 1)
      BY <1>2, <1>10, <3>1 DEF ArgumentsTold
    <3>4. ArgumentsTold(h, n, c)
      BY <3>2, <3>3 DEF ArgumentsTold
    <3> QED BY <1>8, <2>3, <2>5, <3>1, <3>4 DEF CallTold
  <2> QED BY <2>4, <2>5
<1>12. NodeTold(h, n)
  BY <1>5, <1>11 DEF NodeTold
<1> QED BY <1>12 DEF n

\* The nodes of an inlined call are told: its own below it, and what it leaves.
LEMMA ReadyTold ==
    ASSUME NEW f, NEW l, NEW s, NEW g, Visiting(f, l, s, g), l \in calls(f),
           determine_call_handling(f, code(f)[l]) = "Ready",
           NEW v, v = handle_as_inline(f, code(f)[l], s, At(f, l)), NEW n \in nodes_of(v), root(n.at).location = l
    PROVE  NodeTold(v, n)
<1> DEFINE c == code(f)[l]
           at == At(f, l)
           loc == GlobalLocation(f, l)
           w == wanted(f, c)
<1>1. /\ f \in Fn /\ program \in Programs /\ l \in DOMAIN code(f) /\ CallApart(f, l) /\ c.op = "call"
      /\ PlacesDeclared
  BY DEF Visiting, CallsApart, calls
<1>2. w # None /\ w \in built /\ w \in Fn /\ GraphOK(w, pdg[w]) /\ BuiltTold(w) /\ program.argc[w] \in Nat
  <2>1. w # None /\ w \in built
    BY <1>1, ReadyFacts
  <2>2. w \in Fn
    BY <2>1 DEF built
  <2> QED BY <1>1, <2>1, <2>2 DEF Visiting, PlacesDeclared
<1>3. /\ \A m \in v.nodes : InlinedNode(f, l, m)
      /\ \A e \in v.edges : InlinedEdge(f, l, s, e)
      /\ \A d \in pdg[w].nodes : push_node(d, loc) \in v.nodes
      /\ \A e \in pdg[w].edges : pushed_edge(e, loc) \in v.edges
      /\ \A d, p : Returned(f, c, d, p) => returned_edge(f, l, d, p) \in v.edges
  BY <1>2, InlinedParts
<1>4. ASSUME NEW m, m \in s \/ AtStart(f, m) PROVE root(m.at).location # l /\ Len(m.at) = 1
  <2>1. CASE m \in s
    BY <2>1, VisitingFacts
  <2>2. CASE AtStart(f, m)
    BY <2>2, VisitingFacts, AtFacts DEF AtStart, DepNode
  <2> QED BY <1>4, <2>1, <2>2
<1> HIDE DEF w, loc, at
<1>5. ASSUME NEW k \in nodes_of(pdg[w])
      PROVE  Len(push_node(k, loc).at) > 1 /\ Len(push_node(k, loc).at) # 1 /\ push_node(k, loc).at[1] = loc
  <2>1. NodeOK(w, k)
    BY <1>2 DEF GraphOK, EdgeOK, nodes_of
  <2>2. /\ push_node(k, loc).at = push_front(k.at, loc) /\ Len(k.at) \in Nat /\ Len(k.at) # 0
        /\ Len(push_front(k.at, loc)) = Len(k.at) + 1 /\ push_front(k.at, loc)[1] = loc
    BY <1>2, <2>1, PushFacts
  <2> QED BY <2>2
<1>6. ASSUME NEW e \in pdg[w].edges
      PROVE  /\ pushed_edge(e, loc).from = push_node(e.from, loc) /\ pushed_edge(e, loc).to = push_node(e.to, loc)
             /\ e.from \in nodes_of(pdg[w]) /\ e.to \in nodes_of(pdg[w])
  BY DEF pushed_edge, DepEdge, nodes_of
<1>7. \A d, p : LET e == returned_edge(f, l, d, p)
                IN  /\ e.from = push_node(d, loc) /\ e.to = DepNode(p, at) /\ e.at = at
                    /\ e.source_use = Operand /\ e.target_use = returned_as(d.place)
  BY DEF returned_edge, DepEdge, loc, at
<1>8. \A d \in parentable_srcs(w) \cup parentable_dsts(w) : d \in nodes_of(pdg[w])
  BY DEF parentable_srcs, parentable_dsts, nodes_of
<1>9. ASSUME NEW m \in nodes_of(v)
      PROVE  \/ \E k \in nodes_of(pdg[w]) : m = push_node(k, loc)
             \/ \E d, p : Returned(f, c, d, p) /\ m = DepNode(p, at)
             \/ m \in s \/ AtStart(f, m)
  <2>1. CASE m \in v.nodes
    BY <1>3, <2>1 DEF InlinedNode, w, loc, at
  <2>2. ASSUME NEW e \in v.edges, m = e.from \/ m = e.to PROVE <1>9!2
    <3>1. CASE \E d \in pdg[w].edges : e = pushed_edge(d, loc)
      BY <1>6, <2>2, <3>1
    <3>2. CASE \E d \in parentable_srcs(w) : e.to = push_node(d, loc) /\ (e.from \in s \/ AtStart(f, e.from))
      BY <1>8, <2>2, <3>2
    <3>3. CASE \E d, p : Returned(f, c, d, p) /\ e = returned_edge(f, l, d, p)
      <4>1. PICK d, p : Returned(f, c, d, p) /\ e = returned_edge(f, l, d, p)
        BY <3>3
      <4>2. d \in nodes_of(pdg[w])
        BY <1>8, <4>1 DEF Returned, w
      <4> QED BY <1>7, <2>2, <4>1, <4>2
    <3> QED BY <1>3, <3>1, <3>2, <3>3 DEF InlinedEdge, w, loc
  <2> QED BY <2>1, <2>2 DEF nodes_of
<1>10. \A p : Len(DepNode(p, at).at) = 1 /\ DepNode(p, at).place = p /\ DepNode(p, at).at = at
  BY AtFacts DEF DepNode, at
<1>11. Below(pdg[w], loc, v)
  <2>1. \A k \in nodes_of(pdg[w]) : push_node(k, loc) \in nodes_of(v)
    <3>1. ASSUME NEW k \in pdg[w].nodes PROVE push_node(k, loc) \in nodes_of(v)
      BY <1>3 DEF nodes_of
    <3>2. ASSUME NEW e \in pdg[w].edges
          PROVE  push_node(e.from, loc) \in nodes_of(v) /\ push_node(e.to, loc) \in nodes_of(v)
      BY <1>3, <1>6 DEF nodes_of
    <3> QED BY <3>1, <3>2 DEF nodes_of
  <2>2. \A m \in nodes_of(v) : Len(m.at) # 1 => \E k \in nodes_of(pdg[w]) : m = push_node(k, loc)
    BY <1>4, <1>9, <1>10
  <2>3. ASSUME NEW e \in v.edges
        PROVE  \/ \E d \in pdg[w].edges : e = pushed_edge(d, loc)
               \/ /\ Len(e.to.at) = 1 \/ leaf(e.to.at).location = Start
                  /\ e.source_use = Operand
    <3>1. CASE \E d \in pdg[w].edges : e = pushed_edge(d, loc)
      BY <3>1
    <3>2. CASE \E d \in parentable_srcs(w) : e.to = push_node(d, loc) /\ e.source_use = Operand
      <4>1. PICK d \in parentable_srcs(w) : e.to = push_node(d, loc) /\ e.source_use = Operand
        BY <3>2
      <4>2. d.at = single(GlobalLocation(w, Start)) /\ NodeOK(w, d)
        BY <1>2, <1>8 DEF parentable_srcs, parentable, GraphOK, EdgeOK, nodes_of
      <4>3. leaf(e.to.at) = leaf(d.at)
        BY <1>2, <4>1, <4>2, PushFacts
      <4>4. leaf(d.at).location = Start
        BY <4>2, AtFacts DEF At
      <4> QED BY <4>1, <4>3, <4>4
    <3>3. CASE \E d, p : e = returned_edge(f, l, d, p)
      BY <1>7, <1>10, <3>3
    <3> QED BY <1>3, <3>1, <3>2, <3>3 DEF InlinedEdge, w, loc
  <2> QED BY <1>3, <2>1, <2>2, <2>3 DEF Below
<1>12. CASE \E k \in nodes_of(pdg[w]) : n = push_node(k, loc)
  <2>1. PICK k \in nodes_of(pdg[w]) : n = push_node(k, loc)
    BY <1>12
  <2>2. NodeTold(pdg[w], k)
    BY <1>2 DEF BuiltTold, GraphTold
  <2> QED BY <1>2, <1>11, <2>1, <2>2, PushedTold
<1>13. CASE \E d, p : Returned(f, c, d, p) /\ n = DepNode(p, at)
  <2>1. PICK d0, p : Returned(f, c, d0, p) /\ n = DepNode(p, at)
    BY <1>13
  <2>2. n.place = p /\ n.at = at /\ Len(n.at) = 1
    BY <1>10, <2>1
  <2>3. ASSUME NEW d, Returned(f, c, d, p)
        PROVE  /\ p.local \in written(f, c)
               /\ d.place.local = RETURN_PLACE <=> p.local = c.dest.local
    <3>1. w = wanted(f, code(f)[l]) /\ CallApart(f, l) /\ w # None /\ program.argc[w] \in Nat
      BY <1>1, <1>2 DEF w
    <3>2. Returned(f, code(f)[l], d, p)
      BY <2>3
    <3> QED BY <3>1, <3>2, ReturnedLocal
  <2>4. is_inlined(v, n.at)
    <3>1. PICK k \in pdg[w].nodes : TRUE
      BY <1>2 DEF BuiltTold
    <3>2. k \in nodes_of(pdg[w]) /\ push_node(k, loc) \in nodes_of(v)
      BY <1>3 DEF nodes_of
    <3>3. DOMAIN n.at = {1} /\ n.at[1] = loc
      BY <2>2, AtFacts DEF at, loc
    <3>4. \A i \in DOMAIN n.at : push_node(k, loc).at[i] = n.at[i]
      BY <1>5, <3>2, <3>3
    <3>5. Len(push_node(k, loc).at) > Len(n.at)
      BY <1>5, <2>2, <3>2
    <3> QED BY <3>2, <3>4, <3>5 DEF is_inlined
  <2>5. out_edges(v, n) = {}
    <3>1. ASSUME NEW e \in v.edges PROVE e.from # n
      <4>1. CASE \E d \in pdg[w].edges : e = pushed_edge(d, loc)
        BY <1>5, <1>6, <2>2, <4>1
      <4>2. CASE e.from \in s \/ AtStart(f, e.from)
        BY <1>4, <4>2
      <4>3. CASE \E d, q : Returned(f, c, d, q) /\ e = returned_edge(f, l, d, q)
        <5>1. PICK d, q : Returned(f, c, d, q) /\ e = returned_edge(f, l, d, q)
          BY <4>3
        <5>2. d \in nodes_of(pdg[w])
          BY <1>8, <5>1 DEF Returned, w
        <5> QED BY <1>5, <1>7, <2>2, <5>1, <5>2
      <4> QED BY <1>3, <4>1, <4>2, <4>3 DEF InlinedEdge, w, loc
    <3> QED BY <3>1 DEF out_edges
  <2>6. ASSUME NEW e \in in_edges(v, n)
        PROVE  \E d : Returned(f, c, d, p) /\ e = returned_edge(f, l, d, p)
    <3>1. e \in v.edges /\ e.to = n
      BY DEF in_edges
    <3>2. CASE \E d \in pdg[w].edges : e = pushed_edge(d, loc)
      BY <1>5, <1>6, <2>2, <3>1, <3>2
    <3>3. CASE \E d \in parentable_srcs(w) : e.to = push_node(d, loc)
      BY <1>5, <1>8, <2>2, <3>1, <3>3
    <3>4. CASE \E d, q : Returned(f, c, d, q) /\ e = returned_edge(f, l, d, q)
      <4>1. PICK d, q : Returned(f, c, d, q) /\ e = returned_edge(f, l, d, q)
        BY <3>4
      <4>2. q = p
        BY <1>7, <1>10, <2>2, <3>1, <4>1
      <4> QED BY <4>1, <4>2
    <3> QED BY <1>3, <3>1, <3>2, <3>3, <3>4 DEF InlinedEdge, w, loc
  <2>7. \A d : Returned(f, c, d, p) => returned_edge(f, l, d, p) \in in_edges(v, n)
    BY <1>3, <1>7, <2>1 DEF in_edges
  <2>8. ASSUME NEW d PROVE returned_edge(f, l, d, p).target_use = Return <=> d.place.local = RETURN_PLACE
    <3>1. returned_edge(f, l, d, p).target_use = returned_as(d.place)
      BY <1>7
    <3> QED BY <3>1 DEF returned_as, Return, MutArg
  <2>9. needs_return_markers(v, n) <=> n.place.local = c.dest.local
    <3>1. in_edges(v, n) # {}
      BY <2>1, <2>7
    <3>2. \A d : returned_edge(f, l, d, p).at = n.at
      BY <1>7, <2>2
    <3>3. ASSUME needs_return_markers(v, n) PROVE n.place.local = c.dest.local
      <4>1. PICK e \in in_edges(v, n) : e.target_use = Return
        BY <3>1, <3>3 DEF needs_return_markers
      <4>2. PICK d : Returned(f, c, d, p) /\ e = returned_edge(f, l, d, p)
        BY <2>6
      <4> QED BY <2>2, <2>3, <2>8, <4>1, <4>2
    <3>4. ASSUME n.place.local = c.dest.local PROVE needs_return_markers(v, n)
      <4>1. d0.place.local = RETURN_PLACE
        BY <2>1, <2>2, <2>3, <3>4
      <4> QED BY <2>1, <2>7, <2>8, <3>2, <4>1 DEF needs_return_markers
    <3> QED BY <3>3, <3>4
  <2>10. CallTold(v, n, f, c)
    BY <1>2, <2>1, <2>2, <2>3, <2>4, <2>5, <2>9 DEF CallTold, w
  <2>11. n = DepNode(n.place, At(f, l))
    BY <2>1, <2>2 DEF at
  <2> QED BY <1>1, <2>10, <2>11, HereTold
<1> QED BY <1>4, <1>9, <1>12, <1>13

\* Whatever the instruction, its nodes are told.
LEMMA AddedTold ==
    ASSUME NEW f, NEW l, NEW s, NEW g, Visiting(f, l, s, g),
           NEW v, v = visited(f, code(f)[l], s, At(f, l)), NEW n \in nodes_of(v), root(n.at).location = l
    PROVE  NodeTold(v, n)
<1> DEFINE i == code(f)[l]
           at == At(f, l)
<1>1. f \in Fn /\ program \in Programs /\ l \in DOMAIN code(f) /\ i.op \in {"assign", "call"}
  BY VisitingFacts DEF Visiting
<1>2. ASSUME NEW m, m \in s \/ AtStart(f, m) PROVE root(m.at).location # l
  <2>1. CASE m \in s
    BY <2>1, VisitingFacts
  <2>2. CASE AtStart(f, m)
    BY <2>2, VisitingFacts, AtFacts DEF AtStart, DepNode
  <2> QED BY <1>2, <2>1, <2>2
<1>3. ASSUME NEW ms, NEW S, \A m \in S : m \in s \/ m.at = at,
             n \in nodes_of(register_mutation(f, S, ms, at))
      PROVE  (n.at = at /\ n = DepNode(n.place, at)) \/ n \in S
  <2> DEFINE h == register_mutation(f, S, ms, at)
  <2>1. CASE n \in h.nodes
    <3>1. PICK m \in ms : n \in find_outputs(f, m.mutated, at)
      BY <2>1 DEF register_mutation
    <3> QED BY <3>1, OutputAt
  <2>2. CASE \E e \in h.edges : n = e.to
    <3>1. PICK e \in h.edges : n = e.to
      BY <2>2
    <3>2. \E p : n \in find_outputs(f, p, at)
      BY <3>1, RegisteredEdge
    <3> QED BY <3>2, OutputAt
  <2>3. CASE \E e \in h.edges : n = e.from
    <3>1. PICK e \in h.edges : n = e.from
      BY <2>3
    <3>2. \E p : n \in find_data_inputs(f, S, p)
      BY <3>1, RegisteredEdge
    <3>3. n \in S \/ AtStart(f, n)
      BY <3>2, InputFrom
    <3> QED BY <1>2, <3>3
  <2> QED BY <1>3, <2>1, <2>2, <2>3 DEF nodes_of
<1>4. ASSUME NEW ms, n \in nodes_of(register_mutation(f, s, ms, at))
      PROVE  n = DepNode(n.place, at)
  BY <1>2, <1>3, <1>4
<1>5. CASE i.op = "assign"
  <2>1. v = register_mutation(f, s, visit_assign(i.dest, i.rvalue), at)
    BY <1>5, VisitedIs
  <2>2. n = DepNode(n.place, at)
    BY <1>4, <2>1
  <2> QED BY <1>1, <1>5, <2>2, HereTold
<1>6. CASE i.op = "call" /\ determine_call_handling(f, i) = "Ready"
  <2>1. v = handle_as_inline(f, i, s, at)
    BY <1>6, VisitedIs
  <2> QED BY <1>1, <1>6, <2>1, ReadyTold DEF calls
<1>7. CASE i.op = "call" /\ determine_call_handling(f, i) = "None"
  <2>1. v = modular(f, i, s, at)
    BY <1>7, VisitedIs
  <2> QED BY <1>1, <1>7, <2>1, NoneTold DEF calls
<1>8. CASE i.op = "call" /\ stands_in(f, i)
  <2> DEFINE after_ == apply_mutation(f, s, effect(f, i), at)
  <2>1. \A m \in after_ : m \in s \/ (m.at = at /\ m = DepNode(m.place, at))
    BY AfterFacts, OutputAt
  <2>2. v = Join(modular(f, i, s, at), register_mutation(f, s, visit_assign(i.dest, approximation(f, i)), at))
    BY <1>8, VisitedIs
  <2>3. \/ n \in nodes_of(register_mutation(f, s, combine_before(i.args), at))
        \/ n \in nodes_of(register_mutation(f, after_, combine_after(i.args, i.dest), at))
        \/ n \in nodes_of(register_mutation(f, s, visit_assign(i.dest, approximation(f, i)), at))
    BY <2>2, JoinNodes DEF modular
  <2>4. n = DepNode(n.place, at)
    <3>1. CASE n \in nodes_of(register_mutation(f, after_, combine_after(i.args, i.dest), at))
      <4> HIDE DEF after_
      <4>1. n = DepNode(n.place, at) \/ n \in after_
        BY <1>3, <2>1, <3>1
      <4> QED BY <1>2, <2>1, <4>1
    <3> QED BY <1>4, <2>3, <3>1
  <2> QED BY <1>1, <1>8, <2>4, HereTold
<1> QED BY <1>1, <1>5, <1>6, <1>7, <1>8, HandlingCases

\* After an instruction everything is told that was, and what is new.
LEMMA VisitedTold ==
    ASSUME NEW f, NEW l, NEW s, NEW g, Visiting(f, l, s, g)
    PROVE  GraphTold(Join(g, visited(f, code(f)[l], s, At(f, l))))
<1> DEFINE v == visited(f, code(f)[l], s, At(f, l))
<1>1. GraphOK(f, v)
  BY VisitingFacts, VisitedOK DEF Visiting, At
<1>2. NewGraph(f, l, s, v) /\ s \subseteq nodes_of(g)
  BY VisitingFacts DEF Visiting
<1>3. ASSUME NEW n \in nodes_of(v), root(n.at).location = l
      PROVE  NodeTold(Join(g, v), n)
  <2>1. NodeOK(f, n)
    BY <1>1 DEF GraphOK, EdgeOK, nodes_of
  <2>2. NodeTold(v, n)
    BY <1>3, AddedTold
  <2> QED BY <1>3, <2>1, <2>2, NewTold
<1>4. ASSUME NEW n \in nodes_of(g) PROVE NodeTold(Join(g, v), n)
  BY OldTold
<1> HIDE DEF v
<1>5. ASSUME NEW n \in nodes_of(v) PROVE NodeTold(Join(g, v), n)
  <2>1. root(n.at).location = l \/ n \in s \/ AtStart(f, n)
    BY <1>2, NewNodes
  <2> QED BY <1>2, <1>3, <1>4, <2>1, StartTold
<1>6. GraphTold(Join(g, v))
  BY <1>4, <1>5, JoinNodes DEF GraphTold
<1> QED BY <1>6 DEF v

\* What an instruction mutates is in the graph.
LEMMA EffectThere ==
    ASSUME NEW f, NEW l, NEW s, NEW g, Visiting(f, l, s, g),
           NEW p \in effect(f, code(f)[l]), NEW n \in find_outputs(f, p, At(f, l))
    PROVE  n \in nodes_of(visited(f, code(f)[l], s, At(f, l)))
<1> DEFINE i == code(f)[l]
           at == At(f, l)
           v == visited(f, i, s, at)
<1>1. f \in Fn /\ program \in Programs /\ l \in DOMAIN code(f) /\ i.op \in {"assign", "call"}
  BY VisitingFacts DEF Visiting
<1>2. ASSUME NEW ms, NEW S, NEW m \in ms, p = m.mutated PROVE n \in nodes_of(register_mutation(f, S, ms, at))
  <2>1. n \in register_mutation(f, S, ms, at).nodes
    BY <1>2 DEF register_mutation
  <2> QED BY <2>1 DEF nodes_of
<1>3. CASE i.op = "assign"
  <2>1. v = register_mutation(f, s, visit_assign(i.dest, i.rvalue), at)
    BY <1>3, VisitedIs
  <2>2. effect(f, i) = {m.mutated : m \in visit_assign(i.dest, i.rvalue)}
    BY <1>3, VisitedIs
  <2> QED BY <1>2, <2>1, <2>2
<1>4. CASE i.op = "call" /\ determine_call_handling(f, i) = "Ready"
  <2> DEFINE w == wanted(f, i)
  <2>1. v = handle_as_inline(f, i, s, at) /\ effect(f, i) = {d[2] : d \in mutated_by(f, i)}
    BY <1>4, VisitedIs
  <2>2. PICK b \in mutated_by(f, i) : p = b[2]
    BY <2>1
  <2>3. PICK d \in parentable_dsts(w) : b \in {d} \X translated(f, i, d.place)
    BY <2>2 DEF mutated_by
  <2>4. PICK q \in aliases(code(f), p) : n = DepNode(q, at)
    BY DEF find_outputs
  <2>5. Returned(f, i, d, q)
    BY <2>2, <2>3, <2>4 DEF Returned
  <2>6. w \in built
    BY <1>1, <1>4, ReadyFacts DEF calls
  <2>7. GraphOK(w, pdg[w])
    BY <2>6 DEF Visiting
  <2>8. returned_edge(f, l, d, q) \in v.edges
    BY <2>1, <2>5, <2>7, InlinedParts
  <2>9. returned_edge(f, l, d, q).to = n
    BY <2>4 DEF returned_edge, DepEdge
  <2> QED BY <2>8, <2>9 DEF nodes_of
<1>5. CASE i.op = "call" /\ determine_call_handling(f, i) = "None"
  <2>1. v = modular(f, i, s, at) /\ effect(f, i) = places(i.args) \cup {i.dest}
    BY <1>5, VisitedIs
  <2> DEFINE after_ == apply_mutation(f, s, effect(f, i), at)
  <2> HIDE DEF after_
  <2>2. v = Join(register_mutation(f, s, combine_before(i.args), at),
                 register_mutation(f, after_, combine_after(i.args, i.dest), at))
    BY <2>1 DEF modular, after_
  <2>3. CASE p \in places(i.args)
    <3> DEFINE mu == Mutation(p, operands({p}), Assign)
    <3>1. mu \in combine_before(i.args) /\ mu.mutated = p
      BY <2>3 DEF combine_before, Mutation
    <3> HIDE DEF mu
    <3> QED BY <1>2, <2>2, <3>1, JoinNodes
  <2>4. CASE p = i.dest
    <3>1. \E m \in combine_after(i.args, i.dest) : m.mutated = p
      BY <2>4 DEF combine_after, Mutation
    <3> QED BY <1>2, <2>2, <3>1, JoinNodes
  <2> QED BY <2>1, <2>3, <2>4
<1>6. CASE i.op = "call" /\ stands_in(f, i)
  <2>1. /\ v = Join(modular(f, i, s, at), register_mutation(f, s, visit_assign(i.dest, approximation(f, i)), at))
        /\ effect(f, i) = {m.mutated : m \in visit_assign(i.dest, approximation(f, i))}
    BY <1>6, VisitedIs
  <2> QED BY <1>2, <2>1, JoinNodes
<1> QED BY <1>1, <1>3, <1>4, <1>5, <1>6, HandlingCases

\* What an instruction leaves in a local is mutated there.
LEMMA LeavesEffect ==
    ASSUME NEW f, NEW l, NEW s, NEW g, Visiting(f, l, s, g),
           NEW x, leaves(returning, f, code(f)[l], x)
    PROVE  \E p \in effect(f, code(f)[l]) : \E n \in find_outputs(f, p, At(f, l)) : n.place.local = x
<1> DEFINE i == code(f)[l]
           at == At(f, l)
<1>1. /\ f \in Fn /\ program \in Programs /\ l \in DOMAIN code(f) /\ i.op \in {"assign", "call"}
      /\ CallsApart /\ PlacesDeclared
  BY VisitingFacts DEF Visiting
<1>2. i.dest = Local(x) /\ i.dest.local = x /\ i.dest.projection = <<>>
  BY DEF leaves, Local, Place
<1>3. \A q : q \in aliases(code(f), q) => DepNode(q, at) \in find_outputs(f, q, at)
  BY DEF find_outputs
<1>4. \A q : DepNode(q, at).place = q
  BY DEF DepNode
<1>5. ASSUME is_assignment(f, i) PROVE \E m \in visit_assign(i.dest, rvalue_of(f, i)) :
          DepNode(m.mutated, at) \in find_outputs(f, m.mutated, at) /\ m.mutated.local = x
  <2>1. PICK m \in visit_assign(i.dest, rvalue_of(f, i)) : m.mutated \in aliases(code(f), m.mutated)
    BY <1>5 DEF leaves
  <2> QED BY <1>2, <1>3, <2>1, AssignMutations
<1>6. CASE i.op = "assign"
  <2>1. effect(f, i) = {m.mutated : m \in visit_assign(i.dest, i.rvalue)}
    BY <1>6, VisitedIs
  <2>2. is_assignment(f, i) /\ rvalue_of(f, i) = i.rvalue
    BY <1>6 DEF is_assignment, rvalue_of
  <2> QED BY <1>4, <1>5, <2>1, <2>2
<1>7. CASE i.op = "call" /\ stands_in(f, i)
  <2>1. effect(f, i) = {m.mutated : m \in visit_assign(i.dest, approximation(f, i))}
    BY <1>7, VisitedIs
  <2>2. is_assignment(f, i) /\ rvalue_of(f, i) = approximation(f, i)
    BY <1>7 DEF is_assignment, rvalue_of
  <2> QED BY <1>4, <1>5, <2>1, <2>2
<1>8. CASE i.op = "call" /\ determine_call_handling(f, i) = "None"
  <2>1. effect(f, i) = places(i.args) \cup {i.dest}
    BY <1>8, VisitedIs
  <2>2. aliases(code(f), i.dest) = {i.dest}
    BY <1>2 DEF aliases
  <2> QED BY <1>2, <1>3, <1>4, <2>1, <2>2
<1>9. CASE i.op = "call" /\ determine_call_handling(f, i) = "Ready"
  <2> DEFINE w == wanted(f, i)
  <2>1. effect(f, i) = {d[2] : d \in mutated_by(f, i)}
    BY <1>9, VisitedIs
  <2>2. l \in calls(f)
    BY <1>1, <1>9 DEF calls
  <2>3. w # None /\ w \in built
    BY <1>1, <1>9, <2>2, ReadyFacts
  <2>4. w \in returning /\ BuiltTold(w) /\ w \in Fn
    BY <1>9, <2>3 DEF leaves, Visiting, built
  <2>5. PICK d \in parentable_dsts(w) : d.place.local = RETURN_PLACE
    BY <2>4 DEF BuiltTold
  <2>6. PICK q : q \in translated(f, i, d.place)
    BY <2>5, ReturnTranslated
  <2>7. q.local = x
    <3>1. program.argc[w] \in Nat
      BY <1>1, <2>4 DEF PlacesDeclared
    <3>2. d.place.local \in 0 .. program.argc[w]
      BY DEF parentable_dsts, parentable
    <3> QED BY <1>2, <2>5, <2>6, <3>1, <3>2, TranslatedFrom
  <2>8. borrows(code(f), q.local) = {}
    BY <1>1, <1>2, <2>2, <2>7 DEF CallsApart, CallApart
  <2>9. DepNode(q, at) \in find_outputs(f, q, at)
    BY <1>3, <2>8 DEF aliases
  <2>10. <<d, q>> \in mutated_by(f, i) /\ <<d, q>>[2] = q
    BY <2>6 DEF mutated_by
  <2>11. q \in effect(f, i)
    BY <2>1, <2>10
  <2> QED BY <1>4, <2>7, <2>9, <2>11
<1> QED BY <1>1, <1>6, <1>7, <1>8, <1>9, HandlingCases

\* f goes on to the next instruction.
LEMMA VisitingNext ==
    ASSUME NEW f, NEW l, NEW s, NEW g, Visiting(f, l, s, g),
           NEW s2, s2 = apply_mutation(f, s, effect(f, code(f)[l]), At(f, l)),
           NEW h, h = Join(g, visited(f, code(f)[l], s, At(f, l)))
    PROVE  /\ s2 \subseteq nodes_of(h)
           /\ \A n \in s2 : leaf(n.at).location \in 1 .. (l + 1) - 1
           /\ \A n \in nodes_of(h) : root(n.at).location \in {Start} \cup 1 .. (l + 1) - 1
           /\ \A k \in 1 .. (l + 1) - 1 : \A x \in {code(f)[k].dest.local} :
                leaves(returning, f, code(f)[k], x) => \E n \in s2 : n.place.local = x
           /\ GraphTold(h)
<1> DEFINE i == code(f)[l]
           at == At(f, l)
           v == visited(f, i, s, at)
           ps == effect(f, i)
<1>1. l \in Nat /\ l \in DOMAIN code(f) /\ DOMAIN code(f) = 1 .. Len(code(f)) /\ Len(code(f)) \in Nat
  BY VisitingFacts DEF Visiting
<1>2. 1 .. (l + 1) - 1 = 1 .. l - 1 \cup {l} /\ (l + 1) - 1 = l
  BY <1>1
<1>3. nodes_of(h) = nodes_of(g) \cup nodes_of(v)
  BY JoinNodes
<1>4. NewGraph(f, l, s, v) /\ s \subseteq nodes_of(g)
  BY VisitingFacts DEF Visiting
<1>5. \A n \in s2 : n \in s \/ \E p \in ps : n \in find_outputs(f, p, at)
  BY AfterFacts
<1>6. s2 \subseteq nodes_of(h)
  BY <1>3, <1>4, <1>5, EffectThere
<1>7. \A p : \A n \in find_outputs(f, p, at) : leaf(n.at).location = l
  BY OutputAt, AtFacts
<1>8. \A n \in s : leaf(n.at).location \in 1 .. l - 1
  BY DEF Visiting
<1>9. \A n \in s2 : leaf(n.at).location \in 1 .. (l + 1) - 1
  BY <1>2, <1>5, <1>7, <1>8
<1>10. ASSUME NEW n \in nodes_of(h) PROVE root(n.at).location \in {Start} \cup 1 .. (l + 1) - 1
  <2>1. CASE n \in nodes_of(g)
    BY <1>2, <2>1 DEF Visiting
  <2>2. CASE n \in nodes_of(v)
    <3>1. root(n.at).location = l \/ n \in s \/ AtStart(f, n)
      BY <1>4, <2>2, NewNodes
    <3>2. AtStart(f, n) => root(n.at).location = Start
      BY AtFacts DEF AtStart, DepNode
    <3> QED BY <1>2, <1>4, <2>1, <3>1, <3>2
  <2> QED BY <1>3, <2>1, <2>2
<1>11. ASSUME NEW k \in 1 .. (l + 1) - 1, NEW x \in {code(f)[k].dest.local},
              leaves(returning, f, code(f)[k], x)
       PROVE  \E n \in s2 : n.place.local = x
  <2>1. CASE k \in 1 .. l - 1
    <3>1. PICK n \in s : n.place.local = x
      BY <1>11, <2>1 DEF Visiting
    <3>2. CASE \E p \in ps : \E o \in find_outputs(f, p, at) : n.place = o.place
      BY <3>1, <3>2, AfterFacts
    <3>3. CASE \A p \in ps : \A o \in find_outputs(f, p, at) : n.place # o.place
      BY <3>1, <3>3, AfterFacts
    <3> QED BY <3>2, <3>3
  <2>2. CASE k = l
    <3>1. PICK p \in ps : \E n \in find_outputs(f, p, at) : n.place.local = x
      BY <1>11, <2>2, LeavesEffect
    <3> QED BY <3>1, AfterFacts
  <2> QED BY <1>2, <2>1, <2>2
<1>12. GraphTold(h)
  BY VisitedTold
<1> QED BY <1>6, <1>9, <1>10, <1>11, <1>12

-----------------------------------------------------------------------------
(***************************************************************************)
(* What is told depends on the program, which does not change.             *)
(***************************************************************************)
LEMMA LeavesKept ==
    ASSUME program' = program
    PROVE  /\ \A f, c : (stands_in(f, c)' <=> stands_in(f, c)) /\ wanted(f, c)' = wanted(f, c)
           /\ \A f, c : calling_convention(f, c)' = calling_convention(f, c)
           /\ \A R, f, i, x : leaves(R, f, i, x)' <=> leaves(R, f, i, x)
           /\ returning' = returning
<1>1. \A f : code(f)' = code(f)
  BY DEF code
<1>2. \A f, c : classify_call_kind(f, c)' = classify_call_kind(f, c)
  BY <1>1 DEF classify_call_kind
<1>3. \A f, c : on_inline(f, c)' = on_inline(f, c)
  BY <1>2 DEF on_inline, applies
<1>4. \A f, c : calling_convention(f, c)' = calling_convention(f, c)
  BY <1>2, <1>3 DEF calling_convention
<1>5. \A f, c : wanted(f, c)' = wanted(f, c)
  BY ProgramKept
<1>6. \A f, c : stands_in(f, c)' <=> stands_in(f, c)
  BY <1>3 DEF stands_in, approximated, is_async
<1>7. ASSUME NEW f, NEW c, stands_in(f, c) PROVE approximation(f, c)' = approximation(f, c)
  <2>1. wanted(f, c) = None
    BY <1>7, HandlingCases
  <2>2. determine_call_handling(f, c)' = determine_call_handling(f, c)
    BY <2>1, HandlingKept
  <2> QED BY <2>2 DEF approximation
<1>8. \A f, i : is_assignment(f, i)' <=> is_assignment(f, i)
  BY <1>6 DEF is_assignment
<1>9. \A f, i : is_assignment(f, i) => rvalue_of(f, i)' = rvalue_of(f, i)
  BY <1>7 DEF is_assignment, rvalue_of
<1>10. ASSUME NEW R, NEW f, NEW i, NEW x PROVE leaves(R, f, i, x)' <=> leaves(R, f, i, x)
  BY <1>1, <1>5, <1>8, <1>9 DEF leaves
<1>11. \A R : return_by(R)' <=> return_by(R)
  BY <1>1, <1>10 DEF return_by
<1>12. returning' = returning
  BY <1>11 DEF returning
<1> QED BY <1>4, <1>5, <1>6, <1>10, <1>12

LEMMA WrittenKept ==
    ASSUME program' = program
    PROVE  /\ \A f, c : operands_of(f, c)' = operands_of(f, c) /\ written(f, c)' = written(f, c)
           /\ \A f, x : borrowed(f, x)' = borrowed(f, x)
           /\ \A loc : calls_at(loc)' = calls_at(loc)
           /\ \A c : called(c)' = called(c) /\ (unmarked_arguments(c)' <=> unmarked_arguments(c))
           /\ \A f : annotations(f)' = annotations(f)
<1>1. \A f : code(f)' = code(f)
  BY DEF code
<1>2. \A f, c : operands_of(f, c)' = operands_of(f, c)
  BY LeavesKept DEF operands_of
<1>3. \A f, x : borrowed(f, x)' = borrowed(f, x)
  BY <1>1 DEF borrowed
<1>4. \A f, c : written(f, c)' = written(f, c)
  BY <1>2, <1>3 DEF written
<1>5. \A loc : calls_at(loc)' = calls_at(loc)
  BY <1>1 DEF calls_at
<1>6. \A c : called(c)' = called(c)
  BY DEF called
<1>7. \A f : defid_rewrite(f)' = defid_rewrite(f)
  <2>1. \A f : async_fns_of(f)' = async_fns_of(f)
    BY <1>1 DEF async_fns_of, generator
  <2> DEFINE some(S) == CHOOSE g \in S : TRUE
  <2>2. \A f : defid_rewrite(f) = IF async_fns_of(f) = {} THEN f ELSE some(async_fns_of(f))
    BY DEF defid_rewrite
  <2>3. \A f : defid_rewrite(f)' = IF async_fns_of(f)' = {} THEN f ELSE some(async_fns_of(f)')
    BY DEF defid_rewrite
  <2> HIDE DEF some
  <2> QED BY <2>1, <2>2, <2>3
<1>8. \A f : annotations(f)' = annotations(f)
  BY <1>7 DEF annotations, combined_markers, get_parent
<1>9. \A c : unmarked_arguments(c)' <=> unmarked_arguments(c)
  BY <1>6, <1>8 DEF unmarked_arguments
<1> QED BY <1>2, <1>3, <1>4, <1>5, <1>6, <1>8, <1>9

LEMMA ApartKept ==
    ASSUME program' = program
    PROVE  (CallsApart' <=> CallsApart) /\ (CallsMarked' <=> CallsMarked)
<1>1. \A f : code(f)' = code(f) /\ calls(f)' = calls(f)
  BY ProgramKept
<1>2. \A f, p : is_arg(f, p)' <=> is_arg(f, p)
  BY DEF is_arg
<1>3. \A f, p : plain(f, p)' <=> plain(f, p)
  BY <1>1 DEF plain
<1>4. \A f, l, p : filled(f, l, p)' <=> filled(f, l, p)
  <2>1. ASSUME NEW f, NEW l, NEW p PROVE filled(f, l, p)' <=> filled(f, l, p)
    <3>1. \A k : leaves(returning, f, code(f)[k], p.local)' <=> leaves(returning, f, code(f)[k], p.local)
      <4>1. ASSUME NEW R, NEW i, NEW k, R = returning, i = code(f)[k]
            PROVE  /\ leaves(R, f, i, p.local)' <=> leaves(R, f, i, p.local)
                   /\ R = returning' /\ i = code(f)'[k]
        BY <1>1, <4>1, LeavesKept
      <4> QED BY <4>1
    <3> QED BY <1>2, <3>1 DEF filled
  <2> QED BY <2>1
<1>5. \A f, p, q : is_conflict(f, p, q)' <=> is_conflict(f, p, q)
  BY <1>2 DEF is_conflict
<1>6. \A f, l : CallApart(f, l)' <=> CallApart(f, l)
  BY <1>1, <1>3, <1>4, <1>5, LeavesKept, WrittenKept DEF CallApart
<1>7. \A f, l : CallMarked(f, l)' <=> CallMarked(f, l)
  BY <1>1, LeavesKept, WrittenKept DEF CallMarked
<1> QED BY <1>1, <1>6, <1>7 DEF CallsApart, CallsMarked

LEMMA ToldKept ==
    ASSUME program' = program, NEW g, GraphTold(g)
    PROVE  GraphTold(g)'
<1>1. \A f, p : is_arg(f, p)' <=> is_arg(f, p)
  BY DEF is_arg
<1>2. \A e : into_future(e)' <=> into_future(e)
  BY LeavesKept, WrittenKept DEF into_future
<1>3. \A n, c : ArgumentsTold(g, n, c)' <=> ArgumentsTold(g, n, c)
  BY <1>2 DEF ArgumentsTold
<1>4. \A n, f, c : CallTold(g, n, f, c)' <=> CallTold(g, n, f, c)
  BY <1>2, <1>3, LeavesKept, WrittenKept DEF CallTold
<1>5. \A n : NodeTold(g, n)' <=> NodeTold(g, n)
  BY <1>1, <1>4, LeavesKept, WrittenKept DEF NodeTold
<1> QED BY <1>5 DEF GraphTold

LEMMA BuiltKept ==
    ASSUME program' = program, NEW f, pdg'[f] = pdg[f], BuiltTold(f)
    PROVE  BuiltTold(f)'
<1>1. ASSUME NEW g, g = pdg[f] PROVE GraphTold(g)'
  BY <1>1, ToldKept DEF BuiltTold
<1>2. GraphTold(pdg[f])'
  BY <1>1
<1>3. parentable_dsts(f)' = parentable_dsts(f)
  BY DEF parentable_dsts, parentable
<1> QED BY <1>2, <1>3, LeavesKept DEF BuiltTold

LEMMA FrameKept ==
    ASSUME program' = program, NEW fr, FrameTold(fr)
    PROVE  FrameTold(fr)'
<1>1. \A f : code(f)' = code(f)
  BY DEF code
<1>2. ASSUME fr.pass # "iterate" PROVE GraphTold(fr.graph)'
  <2>1. ASSUME NEW g, g = fr.graph PROVE GraphTold(g)'
    BY <1>2, <2>1, ToldKept DEF FrameTold
  <2> QED BY <2>1
<1>3. \A i, x : leaves(returning, fr.fn, i, x)' <=> leaves(returning, fr.fn, i, x)
  <2>1. ASSUME NEW R, R = returning, NEW i, NEW x
        PROVE  (leaves(R, fr.fn, i, x)' <=> leaves(R, fr.fn, i, x)) /\ R = returning'
    BY <2>1, LeavesKept
  <2> QED BY <2>1
<1> QED BY <1>1, <1>2, <1>3 DEF FrameTold

LEMMA SpdgTellsKept ==
    ASSUME program' = program, NEW g, SpdgTold(g)
    PROVE  SpdgTold(g)'
<1>1. \A c, i : on_return(c)' = on_return(c) /\ on_argument(c, i)' = on_argument(c, i)
  BY WrittenKept DEF on_return, on_argument
<1>2. \A f, p : is_arg(f, p)' <=> is_arg(f, p)
  BY DEF is_arg
<1>3. ASSUME NEW n PROVE node_annotations(g, n)' = node_annotations(g, n)
  <2> DEFINE at == leaf(n.at)
             of(c) == (IF needs_return_markers(g, n) THEN on_return(called(c)) ELSE {}) \cup
                      UNION {on_argument(called(c), e.source_use[2]) :
                                e \in {e \in out_edges(g, n) : e.source_use[1] = "Argument"}}
  <2>1. \A c : on_return(called(c))' = on_return(called(c))
               /\ \A i : on_argument(called(c), i)' = on_argument(called(c), i)
    <3>1. ASSUME NEW c, NEW h, h = called(c), NEW i
          PROVE  on_return(h)' = on_return(h) /\ on_argument(h, i)' = on_argument(h, i) /\ h = called(c)'
      BY <1>1, <3>1, WrittenKept
    <3> QED BY <3>1
  <2>2. \A c : of(c)' = of(c)
    BY <2>1
  <2>3. calls_at(at)' = calls_at(at)
    BY WrittenKept
  <2> DEFINE marks == UNION {of(c) : c \in calls_at(at)}
             starts == at.location = Start /\ is_arg(at.function, n.place)
             ends == at.location = End /\ n.place.local = RETURN_PLACE
  <2>4. /\ starts => node_annotations(g, n) = on_argument(at.function, n.place.local - 1)
        /\ ends => node_annotations(g, n) = on_return(at.function)
        /\ ~starts /\ ~ends => node_annotations(g, n) = marks
    BY LocationsAssumption DEF node_annotations
  <2>5. /\ starts' => node_annotations(g, n)' = on_argument(at.function, n.place.local - 1)'
        /\ ends => node_annotations(g, n)' = on_return(at.function)'
        /\ ~starts' /\ ~ends => node_annotations(g, n)' = marks'
    BY LocationsAssumption DEF node_annotations
  <2> HIDE DEF of
  <2>6. marks' = marks
    BY <2>2, <2>3
  <2> HIDE DEF marks
  <2>7. starts' <=> starts
    BY <1>2
  <2> HIDE DEF starts, ends
  <2> QED BY <1>1, <2>4, <2>5, <2>6, <2>7
<1>4. GraphTold(g)'
  BY ToldKept DEF SpdgTold
<1> QED BY <1>3, <1>4 DEF SpdgTold

-----------------------------------------------------------------------------
(***************************************************************************)
(* Every step keeps what is told.                                          *)
(***************************************************************************)
LEMMA ReturningReturns == return_by(returning)
<1>1. ASSUME NEW R \in SUBSET Fn, return_by(R), NEW f \in R
      PROVE  \E l \in DOMAIN code(f) : leaves(returning, f, code(f)[l], RETURN_PLACE)
  <2>1. R \subseteq returning
    BY <1>1 DEF returning
  <2>2. PICK l \in DOMAIN code(f) : leaves(R, f, code(f)[l], RETURN_PLACE)
    BY <1>1 DEF return_by
  <2> QED BY <2>1, <2>2 DEF leaves
<1>2. \A f \in returning : \E R \in SUBSET Fn : return_by(R) /\ f \in R
  BY DEF returning
<1> QED BY <1>1, <1>2 DEF return_by

Premises == PlacesDeclared /\ CallsApart /\ CallsMarked

GraphsTold ==
    /\ \A f \in built : BuiltTold(f)
    /\ \A i \in DOMAIN stack : FrameTold(stack[i])

LEMMA ToldNext ==
    ASSUME program' = program,
           \A f \in Fn : entry'[f] = "Some" => (BuiltTold(f) /\ pdg'[f] = pdg[f]) \/ BuiltTold(f)',
           \A i, fr : i \in DOMAIN stack' /\ fr = stack'[i] => FrameTold(fr)
    PROVE  GraphsTold'
<1>1. ASSUME NEW f \in built' PROVE BuiltTold(f)'
  <2>1. f \in Fn /\ entry'[f] = "Some"
    BY DEF built
  <2> QED BY <2>1, BuiltKept
<1>2. \A i \in DOMAIN stack' : FrameTold(stack[i])'
  BY FrameKept
<1> QED BY <1>1, <1>2 DEF GraphsTold

\* Only the innermost frame changes.
LEMMA AdvanceTold ==
    ASSUME IInv, Graphs, GraphsTold, stack # <<>>, NEW fr, Advance(fr), UNCHANGED <<program, entry, pdg>>,
           FrameTold(fr)
    PROVE  GraphsTold'
<1>1. DOMAIN stack' = DOMAIN stack /\ Len(stack) \in DOMAIN stack
  BY OnTop DEF Advance
<1>2. \A i \in DOMAIN stack : stack'[i] = IF i = Len(stack) THEN fr ELSE stack[i]
  BY DEF Advance
<1>3. \A f \in Fn : entry'[f] = "Some" => BuiltTold(f)
  BY DEF GraphsTold, built
<1>4. \A i, h : i \in DOMAIN stack' /\ h = stack'[i] => FrameTold(h)
  BY <1>1, <1>2 DEF GraphsTold
<1> QED BY <1>3, <1>4, ToldNext

LEMMA ConstructTold ==
    ASSUME IInv, GraphsTold, NEW f \in Fn, entry[f] = "absent", Construct(f)
    PROVE  GraphsTold'
<1>1. /\ program' = program /\ pdg' = pdg /\ entry' = [entry EXCEPT ![f] = "None"]
      /\ stack' = Append(stack, Frame(f))
  BY DEF Construct
<1>2. /\ stack \in Seq({stack[i] : i \in DOMAIN stack}) /\ DOMAIN entry = Fn
  BY DEF IInv, Frames, Entries
<1>3. \A h \in Fn : entry'[h] = "Some" => BuiltTold(h)
  BY <1>1, <1>2 DEF GraphsTold, built
<1> DEFINE S == {stack[i] : i \in DOMAIN stack}
           n == Len(stack)
           fr == Frame(f)
<1>4. n \in Nat /\ DOMAIN stack = 1 .. n /\ stack \in Seq(S)
  BY <1>2
<1>5. FrameTold(fr)
  BY DEF Frame, FrameTold
<1>6. DOMAIN stack' = 1 .. n + 1 /\ \A i \in DOMAIN stack' : stack'[i] = IF i = n + 1 THEN fr ELSE stack[i]
  <2> HIDE DEF fr
  <2>1. stack' = Append(stack, fr) /\ stack \in Seq(S \cup {fr})
    <3>1. S \subseteq S \cup {fr}
      OBVIOUS
    <3> HIDE DEF S
    <3> QED BY <1>1, <1>4, <3>1 DEF fr
  <2> HIDE DEF S
  <2> QED BY <1>4, <2>1
<1> HIDE DEF fr
<1>7. ASSUME NEW i \in DOMAIN stack' PROVE FrameTold(stack'[i])
  <2>1. CASE i = n + 1
    BY <1>5, <1>6, <2>1
  <2>2. CASE i # n + 1
    <3>1. i \in DOMAIN stack /\ stack'[i] = stack[i]
      BY <1>4, <1>6, <2>2
    <3> QED BY <3>1 DEF GraphsTold
  <2> QED BY <2>1, <2>2
<1> QED BY <1>1, <1>3, <1>7, ToldNext

\* Visiting the next instruction.
LEMMA VisitTold ==
    ASSUME IInv, Graphs, GraphsTold, Premises, Visit
    PROVE  GraphsTold'
<1> DEFINE f == top.fn
           l == top.at
           s == top.state
           g == top.graph
           v == visited(f, instruction(top), s, here(top))
           fr == [mutate(top) EXCEPT !.graph = Join(@, v)]
<1>1. /\ stack # <<>> /\ top.pass = "visit" /\ ~at_end(top)
      /\ UNCHANGED <<program, entry, pdg>> /\ Advance(fr)
  BY DEF Visit, Busy
<1>2. /\ Len(stack) \in DOMAIN stack /\ top = stack[Len(stack)]
      /\ DOMAIN top = {"fn", "pass", "at", "state", "graph", "handled"}
      /\ DOMAIN g = {"nodes", "edges"}
  BY <1>1, OnTop DEF top
<1>3. FrameTold(top)
  BY <1>2 DEF GraphsTold
<1>4. Visiting(f, l, s, g)
  BY <1>1, <1>3, OnTop DEF Visiting, FrameTold, Premises, GraphsTold
<1>5. here(top) = At(f, l) /\ instruction(top) = code(f)[l]
  BY DEF here, At, instruction
<1> DEFINE s2 == apply_mutation(f, s, effect(f, code(f)[l]), At(f, l))
           h == Join(g, visited(f, code(f)[l], s, At(f, l)))
<1> HIDE DEF v
<1>6. fr.fn = f /\ fr.pass = "visit" /\ fr.at = l + 1 /\ fr.state = s2 /\ fr.graph = Join(g, v)
  BY <1>1, <1>2, <1>5 DEF mutate
<1>7. fr.graph = h
  BY <1>5, <1>6 DEF v
<1> HIDE DEF fr, s2, h
<1>8. /\ s2 \subseteq nodes_of(h)
      /\ \A n \in s2 : leaf(n.at).location \in 1 .. (l + 1) - 1
      /\ \A n \in nodes_of(h) : root(n.at).location \in {Start} \cup 1 .. (l + 1) - 1
      /\ \A k \in 1 .. (l + 1) - 1 : \A x \in {code(f)[k].dest.local} :
            leaves(returning, f, code(f)[k], x) => \E n \in s2 : n.place.local = x
      /\ GraphTold(h)
  BY <1>4, VisitingNext DEF s2, h
<1>9. FrameTold(fr)
  BY <1>6, <1>7, <1>8 DEF FrameTold
<1> QED BY <1>1, <1>9, AdvanceTold

LEMMA IterateTold ==
    ASSUME IInv, Graphs, GraphsTold, Iterate
    PROVE  GraphsTold'
<1> DEFINE fr == [mutate(top) EXCEPT !.handled = Append(@, handling(top))]
<1>1. stack # <<>> /\ top.pass = "iterate" /\ Advance(fr) /\ UNCHANGED <<program, entry, pdg>>
  BY DEF Iterate, Busy
<1>2. /\ Len(stack) \in DOMAIN stack /\ top = stack[Len(stack)]
      /\ DOMAIN top = {"fn", "pass", "at", "state", "graph", "handled"}
  BY <1>1, OnTop DEF top
<1>3. fr.pass = "iterate" /\ fr.graph = top.graph
  BY <1>1, <1>2 DEF mutate
<1>4. FrameTold(top)
  BY <1>2 DEF GraphsTold
<1> HIDE DEF fr
<1>5. FrameTold(fr)
  BY <1>1, <1>3, <1>4 DEF FrameTold
<1> QED BY <1>1, <1>5, AdvanceTold

LEMMA FixpointTold ==
    ASSUME IInv, Graphs, GraphsTold, Fixpoint
    PROVE  GraphsTold'
<1> DEFINE fr == [top EXCEPT !.pass = "visit", !.at = 1, !.state = {}]
<1>1. stack # <<>> /\ top.pass = "iterate" /\ Advance(fr) /\ UNCHANGED <<program, entry, pdg>>
  BY DEF Fixpoint, Busy
<1>2. /\ Len(stack) \in DOMAIN stack /\ top = stack[Len(stack)]
      /\ DOMAIN top = {"fn", "pass", "at", "state", "graph", "handled"}
  BY <1>1, OnTop DEF top
<1>3. fr.pass = "visit" /\ fr.graph = top.graph /\ fr.at = 1 /\ fr.state = {}
  BY <1>2
<1>4. top.graph = EmptyGraph
  BY <1>1, <1>2 DEF GraphsTold, FrameTold
<1> HIDE DEF fr
<1>5. nodes_of(EmptyGraph) = {}
  BY DEF nodes_of, EmptyGraph
<1>6. 1 .. 1 - 1 = {}
  OBVIOUS
<1>7. FrameTold(fr)
  BY <1>3, <1>4, <1>5, <1>6 DEF FrameTold, GraphTold
<1> QED BY <1>1, <1>7, AdvanceTold

\* What a function leaves at its end.
LEMMA ReturnsEdge ==
    ASSUME NEW f, NEW s, NEW e \in returns(f, s)
    PROVE  /\ e.from \in s /\ e.to = DepNode(e.from.place, At(f, End)) /\ e.source_use = Operand
  BY DEF returns, DepEdge, At

\* The end of f is told as its return value.
LEMMA ReturnedTold ==
    ASSUME program \in Programs, NEW f \in Fn, NEW g, GraphOK(f, g), GraphTold(g), NEW s, s \subseteq nodes_of(g),
           \A n \in nodes_of(g) : root(n.at).location # End,
           NEW h, h.nodes = g.nodes, h.edges = g.edges \cup returns(f, s)
    PROVE  GraphTold(h)
<1>1. ASSUME NEW n \in nodes_of(h) PROVE n \in nodes_of(g) \/ \E p : n = DepNode(p, At(f, End))
  <2>1. CASE n \in h.nodes
    BY <2>1 DEF nodes_of
  <2>2. ASSUME NEW e \in h.edges, n = e.from \/ n = e.to PROVE <1>1!2
    <3>1. CASE e \in g.edges
      BY <2>2, <3>1 DEF nodes_of
    <3>2. CASE e \in returns(f, s)
      BY <2>2, <3>2, ReturnsEdge
    <3> QED BY <3>1, <3>2
  <2> QED BY <2>1, <2>2 DEF nodes_of
<1>2. ASSUME NEW p PROVE NodeTold(h, DepNode(p, At(f, End)))
  <2>1. DepNode(p, At(f, End)).at = At(f, End) /\ leaf(At(f, End)).location = End
    BY AtFacts DEF DepNode
  <2>2. calls_at(leaf(At(f, End))) = {}
    BY <2>1 DEF calls_at, is_real
  <2> QED BY <2>1, <2>2, LocationsAssumption DEF NodeTold
<1>3. ASSUME NEW n \in nodes_of(g) PROVE NodeTold(h, n)
  <2>1. NodeOK(f, n) /\ NodeTold(g, n)
    BY DEF GraphOK, EdgeOK, nodes_of, GraphTold
  <2>2. \A e \in returns(f, s) : e.to # n
    <3>1. \A p : DepNode(p, At(f, End)).at = At(f, End) /\ root(At(f, End)).location = End
      BY AtFacts DEF DepNode
    <3> QED BY <3>1, ReturnsEdge
  <2>3. in_edges(h, n) = in_edges(g, n)
    BY <2>2 DEF in_edges
  <2>4. nodes_of(g) \subseteq nodes_of(h)
    BY DEF nodes_of
  <2>5. \A m \in nodes_of(h) : Len(m.at) > Len(n.at) => m \in nodes_of(g)
    <3>1. \A p : Len(DepNode(p, At(f, End)).at) = 1
      BY AtFacts DEF DepNode
    <3>2. Len(n.at) \in Nat /\ Len(n.at) # 0
      BY <2>1, StringFacts DEF NodeOK
    <3>3. ~(1 > Len(n.at))
      BY <3>2
    <3> QED BY <1>1, <3>1, <3>3
  <2>6. is_inlined(h, n.at) <=> is_inlined(g, n.at)
    BY <2>4, <2>5 DEF is_inlined
  <2>7. \A e \in out_edges(h, n) : e \in out_edges(g, n) \/ e.source_use[1] # "Argument"
    BY ReturnsEdge, ArgumentIs DEF out_edges
  <2>8. out_edges(g, n) \subseteq out_edges(h, n)
    BY DEF out_edges
  <2> QED BY <2>1, <2>3, <2>6, <2>7, <2>8, ToldSame
<1> QED BY <1>1, <1>2, <1>3 DEF GraphTold

\* What f returns is there at its end.
LEMMA ReturnThere ==
    ASSUME NEW f, program.argc[f] \in Nat, NEW s, NEW n \in s, n.place.local = RETURN_PLACE
    PROVE  \E e \in returns(f, s) : parentable(f, e.to, End) /\ e.to.place.local = RETURN_PLACE
<1> DEFINE ret == single(GlobalLocation(f, Len(code(f)) + 1))
           end == single(GlobalLocation(f, End))
           e == DepEdge(n, DepNode(n.place, end), ret, Operand, returned_as(n.place))
<1>1. n.place.local \in 0 .. program.argc[f]
  BY DEF RETURN_PLACE
<1>2. e \in returns(f, s)
  BY <1>1 DEF returns
<1>3. e.to.at = end /\ e.to.place = n.place
  BY DEF DepEdge, DepNode
<1> HIDE DEF e
<1> QED BY <1>1, <1>2, <1>3 DEF parentable

\* A graph that goes to the cache.
LEMMA BuiltNext ==
    ASSUME program' = program, NEW f, NEW h, pdg'[f] = h, GraphTold(h), h.nodes # {},
           f \in returning =>
                \E m \in {e.to : e \in h.edges} : parentable(f, m, End) /\ m.place.local = RETURN_PLACE
    PROVE  BuiltTold(f)'
<1>1. \A m : parentable(f, m, End)' <=> parentable(f, m, End)
  BY DEF parentable
<1>2. parentable_dsts(f)' = {m \in {e.to : e \in h.edges} : parentable(f, m, End)}
  BY <1>1 DEF parentable_dsts
<1>3. GraphTold(h)'
  BY ToldKept
<1>4. GraphTold(pdg[f])'
  BY <1>3
<1> QED BY <1>2, <1>4, LeavesKept DEF BuiltTold

LEMMA FinishTold ==
    ASSUME IInv, Graphs, GraphsTold, Premises, Finish
    PROVE  GraphsTold'
<1>1. stack # <<>> /\ top.pass = "visit" /\ at_end(top) /\ program' = program
  BY DEF Finish, Busy
<1>2. CASE UNCHANGED <<entry, pdg, stack>>
  <2>1. \A f \in Fn : entry'[f] = "Some" => BuiltTold(f) /\ pdg'[f] = pdg[f]
    BY <1>2 DEF GraphsTold, built
  <2>2. \A i, fr : i \in DOMAIN stack' /\ fr = stack'[i] => FrameTold(fr)
    BY <1>2 DEF GraphsTold
  <2> QED BY <1>1, <2>1, <2>2, ToldNext
<1>3. CASE ~UNCHANGED <<entry, pdg, stack>>
  <2> DEFINE f == top.fn
             s == top.state
             g == top.graph
             h == [g EXCEPT !.edges = @ \cup returns(f, s)]
             n == Len(stack)
             S == {stack[i] : i \in DOMAIN stack}
  <2>1. /\ pdg' = [pdg EXCEPT ![f] = h] /\ entry' = [entry EXCEPT ![f] = "Some"]
        /\ stack' = SubSeq(stack, 1, n - 1) /\ g.nodes # {}
    BY <1>3 DEF Finish
  <2>2. /\ DOMAIN entry = Fn /\ DOMAIN pdg = Fn /\ f \in Fn /\ n \in Nat /\ n # 0 /\ DOMAIN stack = 1 .. n
        /\ stack \in Seq(S) /\ program \in Programs /\ GraphOK(f, g) /\ DOMAIN g = {"nodes", "edges"}
        /\ n \in DOMAIN stack /\ top = stack[n]
    BY <1>1, OnTop, TopFacts DEF IInv, Frames, Entries, top
  <2>3. h.nodes = g.nodes /\ h.edges = g.edges \cup returns(f, s)
    BY <2>2
  <2> HIDE DEF h
  <2>4. FrameTold(top)
    BY <2>2 DEF GraphsTold
  <2>5. /\ s \subseteq nodes_of(g) /\ GraphTold(g)
        /\ \A m \in nodes_of(g) : root(m.at).location \in {Start} \cup 1 .. top.at - 1
        /\ \A k \in 1 .. top.at - 1 : \A x \in {code(f)[k].dest.local} :
                leaves(returning, f, code(f)[k], x) => \E m \in s : m.place.local = x
    BY <1>1, <2>4 DEF FrameTold
  <2>6. Len(code(f)) \in Nat /\ DOMAIN code(f) = 1 .. Len(code(f)) /\ top.at \in 1 .. Len(code(f)) + 1
    BY <1>1, TopKnown
  <2>7. 1 .. top.at - 1 = DOMAIN code(f)
    <3>1. top.at = Len(code(f)) + 1
      BY <1>1, <2>6 DEF at_end
    <3> QED BY <2>6, <3>1
  <2>8. \A m \in nodes_of(g) : root(m.at).location # End
    <3>1. \A k \in DOMAIN code(f) : k # End
      BY <2>2, LocationsAssumption DEF code, is_real
    <3> QED BY <2>5, <2>7, <3>1, LocationsAssumption
  <2>9. GraphTold(h)
    BY <2>2, <2>3, <2>5, <2>8, ReturnedTold
  <2>10. ASSUME f \in returning
         PROVE  \E m \in {e.to : e \in h.edges} : parentable(f, m, End) /\ m.place.local = RETURN_PLACE
    <3>1. PICK l \in DOMAIN code(f) : leaves(returning, f, code(f)[l], RETURN_PLACE)
      BY <2>10, ReturningReturns DEF return_by
    <3>2. code(f)[l].dest.local = RETURN_PLACE
      BY <3>1 DEF leaves, Local, Place
    <3>3. PICK m \in s : m.place.local = RETURN_PLACE
      BY <2>5, <2>7, <3>1, <3>2
    <3>4. program.argc[f] \in Nat
      BY <2>2 DEF Premises, PlacesDeclared
    <3> QED BY <2>3, <3>3, <3>4, ReturnThere
  <2>11. ASSUME NEW k \in Fn, k = f PROVE BuiltTold(k)'
    <3>1. pdg'[k] = h /\ h.nodes # {}
      BY <2>1, <2>2, <2>3, <2>11
    <3>2. k \in returning =>
            \E m \in {e.to : e \in h.edges} : parentable(k, m, End) /\ m.place.local = RETURN_PLACE
      BY <2>10, <2>11
    <3> QED BY <1>1, <2>9, <3>1, <3>2, BuiltNext
  <2>12. \A k \in Fn : entry'[k] = "Some" => (BuiltTold(k) /\ pdg'[k] = pdg[k]) \/ BuiltTold(k)'
    <3>1. ASSUME NEW k \in Fn, entry'[k] = "Some", k # f PROVE BuiltTold(k) /\ pdg'[k] = pdg[k]
      BY <2>1, <2>2, <3>1 DEF GraphsTold, built
    <3> QED BY <2>11, <3>1
  <2> HIDE DEF S
  <2>13. Len(stack') = n - 1 /\ stack' \in Seq(S) /\ \A i \in 1 .. n - 1 : stack'[i] = stack[i]
    BY <1>1, <2>1, <2>2, InputsAreGraphs, Memo!Popped
  <2> HIDE DEF n
  <2>14. \A i \in DOMAIN stack' : i \in DOMAIN stack /\ stack'[i] = stack[i]
    BY <2>2, <2>13
  <2>15. \A i, fr : i \in DOMAIN stack' /\ fr = stack'[i] => FrameTold(fr)
    BY <2>14 DEF GraphsTold
  <2> QED BY <1>1, <2>12, <2>15, ToldNext
<1> QED BY <1>2, <1>3

LEMMA ConstructionTold ==
    ASSUME IInv, Graphs, GraphsTold, Premises, ConstructionStep
    PROVE  GraphsTold'
<1>1. CASE ConstructCallee
  <2> DEFINE f == wanted(top.fn, instruction(top))
  <2>1. stack # <<>> /\ asks(top) /\ Construct(f)
    BY <1>1 DEF ConstructCallee
  <2>2. f \in Fn /\ entry[f] = "absent"
    BY <2>1, CalleeOfTop
  <2> HIDE DEF f
  <2> QED BY <2>1, <2>2, ConstructTold
<1> QED BY <1>1, IterateTold, FixpointTold, VisitTold, FinishTold DEF ConstructionStep

-----------------------------------------------------------------------------
(***************************************************************************)
(* The SPDGs tell it too.                                                  *)
(***************************************************************************)
LEMMA ConstructedTold ==
    ASSUME program \in Programs, NEW t \in Fn, root_of(t) \in built, Graphs, GraphsTold
    PROVE  GraphTold(construct_graph(t))
<1> DEFINE r == root_of(t)
           g == pdg[r]
           loc == GlobalLocation(t, generator_loc(code(t)))
           h == push_call_string_root(g, loc)
<1>1. GraphOK(r, g) /\ r \in Fn /\ GraphTold(g)
  BY DEF Graphs, built, GraphsTold, BuiltTold
<1>2. CASE ~determine_async(t)
  BY <1>1, <1>2 DEF root_of, construct_graph
<1>3. CASE determine_async(t)
  <2>1. construct_graph(t) = h
    BY <1>3 DEF root_of, construct_graph
  <2> HIDE DEF r, g, loc
  <2>2. h.nodes = {push_node(n, loc) : n \in g.nodes} /\ h.edges = {pushed_edge(e, loc) : e \in g.edges}
    BY <1>1, PushedParts
  <2> HIDE DEF h
  <2>3. ASSUME NEW e \in g.edges
        PROVE  /\ pushed_edge(e, loc).from = push_node(e.from, loc) /\ pushed_edge(e, loc).to = push_node(e.to, loc)
               /\ e.from \in nodes_of(g) /\ e.to \in nodes_of(g) /\ pushed_edge(e, loc) \in h.edges
    BY <2>2 DEF pushed_edge, DepEdge, nodes_of
  <2>4. \A n \in nodes_of(h) : \E k \in nodes_of(g) : n = push_node(k, loc)
    <3>1. ASSUME NEW n \in h.nodes PROVE \E k \in nodes_of(g) : n = push_node(k, loc)
      BY <2>2 DEF nodes_of
    <3>2. ASSUME NEW d \in h.edges, NEW n, n = d.from \/ n = d.to
          PROVE  \E k \in nodes_of(g) : n = push_node(k, loc)
      <4>1. PICK e \in g.edges : d = pushed_edge(e, loc)
        BY <2>2
      <4> QED BY <2>3, <3>2, <4>1
    <3> QED BY <3>1, <3>2 DEF nodes_of
  <2>5. \A k \in nodes_of(g) : push_node(k, loc) \in nodes_of(h)
    <3>1. \A k \in g.nodes : push_node(k, loc) \in nodes_of(h)
      BY <2>2 DEF nodes_of
    <3>2. \A e \in g.edges : push_node(e.from, loc) \in nodes_of(h) /\ push_node(e.to, loc) \in nodes_of(h)
      BY <2>3 DEF nodes_of
    <3> QED BY <3>1, <3>2 DEF nodes_of
  <2>6. Below(g, loc, h)
    BY <2>2, <2>3, <2>4, <2>5 DEF Below
  <2>7. GraphTold(h)
    BY <1>1, <2>4, <2>6, PushedTold DEF GraphTold
  <2> QED BY <2>1, <2>7
<1> QED BY <1>2, <1>3

\* The markers that a node has for a call.
call_markers(g, n, c) ==
    (IF needs_return_markers(g, n) THEN on_return(called(c)) ELSE {}) \cup
    UNION {on_argument(called(c), e.source_use[2]) :
                e \in {e \in out_edges(g, n) : e.source_use[1] = "Argument"}}

LEMMA AnnotationsAre ==
    ASSUME NEW g, NEW n
    PROVE  LET at == leaf(n.at)
               starts == at.location = Start /\ is_arg(at.function, n.place)
               ends == at.location = End /\ n.place.local = RETURN_PLACE
           IN  /\ starts => node_annotations(g, n) = on_argument(at.function, n.place.local - 1)
               /\ ends => node_annotations(g, n) = on_return(at.function)
               /\ ~starts /\ ~ends => node_annotations(g, n) = UNION {call_markers(g, n, c) : c \in calls_at(at)}
  BY LocationsAssumption DEF node_annotations, call_markers

\* A target that is converted.
LEMMA SpdgTells ==
    ASSUME NEW t, NEW g, GraphTold(g)
    PROVE  SpdgTold(SPDG(t, g))
<1> DEFINE h == SPDG(t, g)
<1>1. h.nodes = nodes_of(g) /\ h.edges = g.edges /\ h.markers = [n \in nodes_of(g) |-> node_annotations(g, n)]
  BY DEF SPDG
<1> HIDE DEF h
<1>2. nodes_of(h) = nodes_of(g)
  BY <1>1 DEF nodes_of
<1>3. \A n : in_edges(h, n) = in_edges(g, n) /\ out_edges(h, n) = out_edges(g, n)
  BY <1>1 DEF in_edges, out_edges
<1>4. \A cs : is_inlined(h, cs) <=> is_inlined(g, cs)
  BY <1>2 DEF is_inlined
<1>5. GraphTold(h)
  BY <1>2, <1>3, <1>4, ToldSame DEF GraphTold
<1>6. ASSUME NEW n PROVE node_annotations(h, n) = node_annotations(g, n)
  <2>1. in_edges(h, n) = in_edges(g, n) /\ out_edges(h, n) = out_edges(g, n)
    BY <1>3
  <2>2. needs_return_markers(h, n) <=> needs_return_markers(g, n)
    BY <2>1 DEF needs_return_markers
  <2>3. \A c : call_markers(h, n, c) = call_markers(g, n, c)
    BY <2>1, <2>2 DEF call_markers
  <2> DEFINE at == leaf(n.at)
             starts == at.location = Start /\ is_arg(at.function, n.place)
             ends == at.location = End /\ n.place.local = RETURN_PLACE
             marks(k) == UNION {call_markers(k, n, c) : c \in calls_at(at)}
  <2>4. marks(h) = marks(g)
    BY <2>3
  <2>5. ASSUME NEW k
        PROVE  /\ starts => node_annotations(k, n) = on_argument(at.function, n.place.local - 1)
               /\ ends => node_annotations(k, n) = on_return(at.function)
               /\ ~starts /\ ~ends => node_annotations(k, n) = marks(k)
    BY AnnotationsAre
  <2> HIDE DEF starts, ends, marks
  <2> QED BY <2>4, <2>5
<1>7. SpdgTold(h)
  BY <1>1, <1>2, <1>5, <1>6 DEF SpdgTold
<1> QED BY <1>7 DEF h

LEMMA InitMInv == Init => MInv
<1> SUFFICES ASSUME Init PROVE MInv
  OBVIOUS
<1>1. /\ entry = [f \in Fn |-> "absent"] /\ stack = <<>> /\ spdgs = [t \in {} |-> {}]
  BY DEF Init, NothingGenerated, NothingConstructed
<1>2. built = {} /\ DOMAIN stack = {} /\ DOMAIN spdgs = {}
  BY <1>1 DEF built
<1> QED BY <1>2 DEF MInv

LEMMA MInvStep == CInv /\ Premises /\ MInv /\ [Next]_vars => MInv'
<1> SUFFICES ASSUME CInv, Premises, MInv, [Next]_vars PROVE MInv'
  OBVIOUS
<1>1. SInv /\ IInv /\ Graphs /\ program \in Programs /\ queue \in Seq(Fn) /\ program' = program
      /\ GraphsTold
  BY CacheKept DEF CInv, SInv, IInv, Frames, QueueOK, MInv, GraphsTold
<1>2. GraphsTold'
  <2>1. CASE StartTarget
    <3>1. queue # <<>> /\ entry[root_of(target)] = "absent" /\ Construct(root_of(target))
      BY <2>1 DEF StartTarget, ConstructRoot
    <3>2. root_of(target) \in Fn
      BY <1>1, <3>1, RootOfTarget
    <3> QED BY <1>1, <3>1, <3>2, ConstructTold
  <2>2. CASE ConstructStep
    BY <1>1, <2>2, ConstructionTold DEF ConstructStep
  <2>3. CASE UNCHANGED construction_vars
    <3>1. entry' = entry /\ pdg' = pdg /\ stack' = stack
      BY <2>3 DEF construction_vars
    <3>2. \A f \in Fn : entry'[f] = "Some" => BuiltTold(f) /\ pdg'[f] = pdg[f]
      BY <1>1, <3>1 DEF GraphsTold, built
    <3>3. \A i, fr : i \in DOMAIN stack' /\ fr = stack'[i] => FrameTold(fr)
      BY <1>1, <3>1 DEF GraphsTold
    <3> QED BY <1>1, <3>2, <3>3, ToldNext
  <2> QED BY <2>1, <2>2, <2>3 DEF Next, Convert, TypeStep, FinishTarget, Describe, Exit, vars
<1>3. \A t \in DOMAIN spdgs' : SpdgTold(spdgs[t])'
  <2>1. SUFFICES \A t \in DOMAIN spdgs' : SpdgTold(spdgs'[t])
    <3>1. ASSUME NEW g, SpdgTold(g) PROVE SpdgTold(g)'
      BY <1>1, <3>1, SpdgTellsKept
    <3> QED BY <2>1, <3>1
  <2>2. CASE Convert
    <3>1. /\ queue # <<>> /\ entry[root_of(target)] = "Some"
          /\ spdgs' = [t \in DOMAIN spdgs \cup {target} |->
                            IF t = target THEN SPDG(target, construct_graph(target)) ELSE spdgs[t]]
      BY <2>2 DEF Convert
    <3>2. target \in Fn /\ root_of(target) \in built
      BY <1>1, <3>1, RootOfTarget DEF target, built
    <3>3. SpdgTold(SPDG(target, construct_graph(target)))
      BY <1>1, <3>2, ConstructedTold, SpdgTells
    <3> QED BY <3>1, <3>3 DEF MInv
  <2>3. CASE spdgs' = spdgs
    BY <2>3 DEF MInv
  <2> QED BY <2>2, <2>3 DEF Next, StartTarget, ConstructStep, TypeStep, FinishTarget, Describe,
                            Exit, vars, generation
<1> QED BY <1>2, <1>3 DEF MInv, GraphsTold

-----------------------------------------------------------------------------
(***************************************************************************)
(* What is told of a node makes its markers the right ones.                *)
(***************************************************************************)
MarkedRight(g, n) ==
    /\ markers_of(g, n) \subseteq node_annotations(g, n)
    /\ into_future_of(g, n) \/ node_annotations(g, n) \subseteq markers_of(g, n)

\* Where a body starts and where it ends.
LEMMA EndsMarked ==
    ASSUME NEW g, NEW n, NodeTold(g, n), ~captured(n), ~is_real(leaf(n.at).location)
    PROVE  MarkedRight(g, n)
<1> DEFINE at == leaf(n.at)
           f == at.function
<1>1. Start # End
  BY LocationsAssumption
<1>2. calls_at(at) = {}
  BY DEF calls_at
<1>3. CASE at.location = Start
  <2>1. is_arg(f, n.place)
    BY <1>3 DEF NodeTold
  <2>2. node_annotations(g, n) = on_argument(f, n.place.local - 1)
    BY <1>3, <2>1, AnnotationsAre
  <2>3. parameter_of(n) = {n.place.local - 1}
    BY <1>3 DEF captured, parameter_of
  <2>4. returns_of(g, n) = {}
    BY <1>1, <1>2, <1>3 DEF returns_of
  <2>5. arguments_of(g, n) = {<<f, n.place.local - 1>>}
    BY <1>2, <1>3, <2>3 DEF arguments_of
  <2>6. markers_of(g, n) = on_argument(f, n.place.local - 1)
    BY <2>4, <2>5 DEF markers_of
  <2> QED BY <2>2, <2>6 DEF MarkedRight
<1>4. CASE at.location = End
  <2>1. arguments_of(g, n) = {}
    BY <1>1, <1>2, <1>4 DEF arguments_of
  <2>2. CASE n.place.local = RETURN_PLACE
    <3>1. node_annotations(g, n) = on_return(f)
      BY <1>4, <2>2, AnnotationsAre
    <3>2. returns_of(g, n) = {f}
      BY <1>2, <1>4, <2>2 DEF returns_of
    <3>3. markers_of(g, n) = on_return(f)
      BY <2>1, <3>2 DEF markers_of
    <3> QED BY <3>1, <3>3 DEF MarkedRight
  <2>3. CASE n.place.local # RETURN_PLACE
    <3>1. node_annotations(g, n) = UNION {call_markers(g, n, c) : c \in calls_at(at)}
      BY <1>1, <1>4, <2>3, AnnotationsAre
    <3>2. node_annotations(g, n) = {}
      BY <1>2, <3>1
    <3>3. returns_of(g, n) = {}
      BY <1>2, <2>3 DEF returns_of
    <3>4. markers_of(g, n) = {}
      BY <2>1, <3>3 DEF markers_of
    <3> QED BY <3>2, <3>4 DEF MarkedRight
  <2> QED BY <2>2, <2>3
<1> QED BY <1>3, <1>4 DEF is_real

\* At a call.
LEMMA CallsMarkedRight ==
    ASSUME program \in Programs, CallsApart, CallsMarked, NEW g, NEW n, NodeTold(g, n),
           leaf(n.at).function \in Fn, is_real(leaf(n.at).location)
    PROVE  MarkedRight(g, n)
<1> DEFINE at == leaf(n.at)
           f == at.function
<1>1. at.location # Start /\ at.location # End
  BY DEF is_real
<1>2. node_annotations(g, n) = UNION {call_markers(g, n, c) : c \in calls_at(at)}
  BY <1>1, AnnotationsAre
<1>3. returns_of(g, n) = {called(c) : c \in {c \in calls_at(at) :
            IF is_inlined(g, n.at) THEN n.place.local = c.dest.local ELSE n.place = c.dest}}
  BY <1>1 DEF returns_of
<1>4. arguments_of(g, n) =
        UNION {{<<called(c), i - 1>> : i \in {i \in DOMAIN c.args : c.args[i] = n.place}} :
                c \in {c \in calls_at(at) : ~is_inlined(g, n.at) /\ ~stands_in(f, c)}}
  BY <1>1 DEF arguments_of
<1>5. CASE calls_at(at) = {}
  <2>1. returns_of(g, n) = {} /\ arguments_of(g, n) = {} /\ node_annotations(g, n) = {}
    BY <1>2, <1>3, <1>4, <1>5
  <2> QED BY <2>1 DEF MarkedRight, markers_of
<1>6. ASSUME NEW c \in calls_at(at)
      PROVE  MarkedRight(g, n)
  <2>1. /\ calls_at(at) = {c} /\ at.location \in calls(f) /\ c = code(f)[at.location]
        /\ CallApart(f, at.location) /\ CallMarked(f, at.location)
    <3>1. calls_at(at) = {c}
      BY DEF calls_at
    <3> QED BY <3>1, CallAt DEF CallsApart, CallsMarked
  <2>2. node_annotations(g, n) = call_markers(g, n, c)
    BY <1>2, <2>1
  <2>3. ASSUME NEW i, unmarked_arguments(c) PROVE on_argument(called(c), i) = {}
    BY <2>3 DEF unmarked_arguments, on_argument
  <2>4. CASE stands_in(f, c)
    <3>1. annotations(called(c)) = {}
      BY <2>1, <2>4 DEF CallMarked
    <3>2. on_return(called(c)) = {} /\ \A i : on_argument(called(c), i) = {}
      BY <3>1 DEF on_return, on_argument
    <3>3. node_annotations(g, n) = {}
      BY <2>2, <3>2 DEF call_markers
    <3>4. arguments_of(g, n) = {} /\ \A h \in returns_of(g, n) : h = called(c)
      BY <1>3, <1>4, <2>1, <2>4
    <3>5. markers_of(g, n) = {}
      BY <3>2, <3>4 DEF markers_of
    <3> QED BY <3>3, <3>5 DEF MarkedRight
  <2>5. CASE ~stands_in(f, c)
    <3>1. CallTold(g, n, f, c)
      BY <2>5 DEF NodeTold
    <3>2. needs_return_markers(g, n) <=> n.place.local = c.dest.local
      BY <3>1 DEF CallTold
    <3>3. \A e \in out_edges(g, n) : into_future(e) => into_future_of(g, n)
      BY DEF into_future, into_future_of
    <3>4. CASE is_inlined(g, n.at)
      <4>1. \A e \in out_edges(g, n) : e.source_use[1] = "Argument" => unmarked_arguments(c) \/ into_future(e)
        BY <3>1, <3>4 DEF CallTold
      <4>2. arguments_of(g, n) = {}
        BY <1>4, <3>4
      <4>3. \A h \in returns_of(g, n) : h = called(c) /\ needs_return_markers(g, n)
        BY <1>3, <2>1, <3>2, <3>4
      <4>4. needs_return_markers(g, n) => called(c) \in returns_of(g, n)
        BY <1>3, <2>1, <3>2, <3>4
      <4>5. markers_of(g, n) \subseteq node_annotations(g, n)
        BY <2>2, <4>2, <4>3 DEF markers_of, call_markers
      <4>6. ASSUME ~into_future_of(g, n), NEW k \in call_markers(g, n, c) PROVE k \in markers_of(g, n)
        <5>1. ASSUME NEW e \in out_edges(g, n), e.source_use[1] = "Argument"
              PROVE  on_argument(called(c), e.source_use[2]) = {}
          BY <2>3, <3>3, <4>1, <4>6, <5>1
        <5>2. needs_return_markers(g, n) /\ k \in on_return(called(c))
          BY <5>1 DEF call_markers
        <5> QED BY <4>4, <5>2 DEF markers_of
      <4> QED BY <2>2, <4>5, <4>6 DEF MarkedRight
    <3>5. CASE ~is_inlined(g, n.at)
      <4>1. n.place \in places(c.args) \cup {c.dest} /\ ArgumentsTold(g, n, c)
        BY <3>1, <3>5 DEF CallTold
      <4>2. \A a \in places(c.args) : c.dest.local # a.local
        BY <2>1 DEF CallApart, borrowed
      <4>3. n.place.local = c.dest.local <=> n.place = c.dest
        BY <4>1, <4>2
      <4>4. \A h \in returns_of(g, n) : h = called(c) /\ needs_return_markers(g, n)
        BY <1>3, <2>1, <3>2, <3>5, <4>3
      <4>5. needs_return_markers(g, n) => called(c) \in returns_of(g, n)
        BY <1>3, <2>1, <3>2, <3>5, <4>3
      <4>6. arguments_of(g, n) = {<<called(c), i - 1>> : i \in {i \in DOMAIN c.args : c.args[i] = n.place}}
        <5>1. {d \in calls_at(at) : ~is_inlined(g, n.at) /\ ~stands_in(f, d)} = {c}
          BY <2>1, <2>5, <3>5
        <5> QED BY <1>4, <5>1
      <4>7. ASSUME NEW k \in markers_of(g, n) PROVE k \in call_markers(g, n, c)
        <5>1. CASE \E h \in returns_of(g, n) : k \in on_return(h)
          BY <4>4, <5>1 DEF call_markers
        <5>2. CASE \E a \in arguments_of(g, n) : k \in on_argument(a[1], a[2])
          <6>1. PICK i \in DOMAIN c.args : c.args[i] = n.place /\ k \in on_argument(called(c), i - 1)
            BY <4>6, <5>2
          <6>2. PICK e \in out_edges(g, n) : e.source_use = Argument(i - 1)
            BY <4>1, <6>1 DEF ArgumentsTold
          <6>3. e.source_use[1] = "Argument" /\ e.source_use[2] = i - 1
            BY <6>2, ArgumentIs
          <6> QED BY <6>1, <6>3 DEF call_markers
        <5> QED BY <5>1, <5>2 DEF markers_of
      <4>8. ASSUME ~into_future_of(g, n), NEW k \in call_markers(g, n, c) PROVE k \in markers_of(g, n)
        <5>1. CASE needs_return_markers(g, n) /\ k \in on_return(called(c))
          BY <4>5, <5>1 DEF markers_of
        <5>2. CASE \E e \in out_edges(g, n) : e.source_use[1] = "Argument" /\ k \in on_argument(called(c), e.source_use[2])
          <6>1. PICK e \in out_edges(g, n) : e.source_use[1] = "Argument" /\ k \in on_argument(called(c), e.source_use[2])
            BY <5>2
          <6>2. PICK i \in DOMAIN c.args : c.args[i] = n.place /\ e.source_use = Argument(i - 1)
            BY <3>3, <4>1, <4>8, <6>1 DEF ArgumentsTold
          <6>3. e.source_use[2] = i - 1
            BY <6>2, ArgumentIs
          <6>4. <<called(c), i - 1>> \in arguments_of(g, n)
            BY <4>6, <6>2
          <6>5. k \in on_argument(<<called(c), i - 1>>[1], <<called(c), i - 1>>[2])
            BY <6>1, <6>3
          <6> QED BY <6>4, <6>5 DEF markers_of
        <5> QED BY <5>1, <5>2 DEF call_markers
      <4> QED BY <2>2, <4>7, <4>8 DEF MarkedRight
    <3> QED BY <3>4, <3>5
  <2> QED BY <2>4, <2>5
<1> QED BY <1>5, <1>6

\* What is told of all nodes makes their markers right.
LEMMA MarkersTold == CInv /\ Premises /\ MInv => MarkersRight
<1> SUFFICES ASSUME CInv, Premises, MInv, NEW t \in DOMAIN spdgs, NEW n \in spdgs[t].nodes, ~captured(n)
             PROVE  /\ markers_of(spdgs[t], n) \subseteq spdgs[t].markers[n]
                    /\ into_future_of(spdgs[t], n) \/ spdgs[t].markers[n] \subseteq markers_of(spdgs[t], n)
  BY DEF MarkersRight
<1>1. n \in nodes_of(spdgs[t]) /\ leaf(n.at).function \in Fn
  BY DEF CInv, Spdgs, SpdgGraph, SpdgNode, nodes_of
<1>2. NodeTold(spdgs[t], n) /\ spdgs[t].markers[n] = node_annotations(spdgs[t], n)
  BY <1>1 DEF MInv, SpdgTold, GraphTold
<1>3. program \in Programs
  BY DEF CInv, SInv, IInv, Frames
<1>4. MarkedRight(spdgs[t], n)
  BY <1>1, <1>2, <1>3, EndsMarked, CallsMarkedRight DEF Premises
<1> QED BY <1>2, <1>4 DEF MarkedRight

\* The premises speak of the program.
LEMMA PremisesKept == CInv /\ Premises /\ [Next]_vars => Premises'
<1> SUFFICES ASSUME CInv, Premises, [Next]_vars PROVE Premises'
  OBVIOUS
<1>1. program' = program
  BY CacheKept DEF CInv
<1> QED BY <1>1, DeclaredKept, ApartKept DEF Premises

(***************************************************************************)
(* No marker is lost or invented on the way from a function to the nodes   *)
(* that are its arguments and its results, however deep the calls are      *)
(* inlined that they are of.                                               *)
(***************************************************************************)
THEOREM Markers == Spec /\ PlacesDeclared /\ CallsApart /\ CallsMarked => []MarkersRight
<1>1. PlacesDeclared /\ CallsApart /\ CallsMarked => Premises
  BY DEF Premises
<1> QED BY <1>1, MarkersTold, PremisesKept, InitCInv, CInvStep, InitMInv, MInvStep, PTL DEF Spec

-----------------------------------------------------------------------------
(***************************************************************************)
(* What a policy looks up: the types of all nodes have been asked for when *)
(* a target is done.                                                       *)
(***************************************************************************)
TypesHandled ==
    \A t \in DOMAIN spdgs : (phase = "types" /\ t = target)
        \/ \A n \in spdgs[t].nodes : ty_nodes(t, n) \subseteq type_handled

LEMMA HandledKept ==
    ASSUME TypesHandled, program' = program, UNCHANGED <<spdgs, queue>>,
           phase = "types" => phase' = "types", type_handled \subseteq type_handled'
    PROVE  TypesHandled'
<1>1. target' = target
  BY DEF target
<1>2. \A t, n : ty_nodes(t, n)' = ty_nodes(t, n)
  BY DEF ty_nodes, place_type, determine_async
<1> QED BY <1>1, <1>2 DEF TypesHandled

LEMMA HandledStep == CInv /\ TypesHandled /\ [Next]_vars => TypesHandled'
<1> SUFFICES ASSUME CInv, TypesHandled, [Next]_vars PROVE TypesHandled'
  OBVIOUS
<1>1. program' = program
  BY CacheKept DEF CInv
<1>2. \A t, n : ty_nodes(t, n)' = ty_nodes(t, n)
  BY <1>1 DEF ty_nodes, place_type, determine_async
<1>3. CASE StartTarget
  BY <1>1, <1>3, HandledKept DEF StartTarget, generation, type_cache
<1>4. CASE ConstructStep
  BY <1>1, <1>4, HandledKept DEF ConstructStep, generation, type_cache
<1>5. CASE Convert
  <2>1. /\ phase = "construct" /\ phase' = "types" /\ target' = target /\ type_handled' = type_handled
        /\ \A t \in DOMAIN spdgs' : t = target \/ (t \in DOMAIN spdgs /\ spdgs'[t] = spdgs[t])
    BY <1>5 DEF Convert, type_cache, target
  <2> QED BY <1>2, <2>1 DEF TypesHandled
<1>6. CASE TypeStep
  <2>1. type_handled \subseteq type_handled'
    BY <1>6 DEF TypeStep, T!Compute, T!HandleNode, T!Request, T!Register, T!cache
  <2> QED BY <1>1, <1>6, <2>1, HandledKept DEF TypeStep, generation
<1>7. CASE FinishTarget
  <2>1. /\ phase = "types" /\ asked_types \subseteq type_handled
        /\ type_handled' = type_handled /\ spdgs' = spdgs
    BY <1>7 DEF FinishTarget, type_cache
  <2>2. \A n \in spdgs[target].nodes : ty_nodes(target, n) \subseteq type_handled
    BY <2>1 DEF asked_types
  <2> HIDE DEF target
  <2>3. \A t \in DOMAIN spdgs : \A n \in spdgs[t].nodes : ty_nodes(t, n) \subseteq type_handled
    BY <2>2 DEF TypesHandled
  <2> QED BY <1>2, <2>1, <2>3 DEF TypesHandled
<1>8. CASE Describe
  BY <1>1, <1>8, HandledKept DEF Describe, type_cache
<1>9. CASE UNCHANGED vars
  BY <1>9, HandledKept DEF vars, type_cache
<1> QED BY <1>3, <1>4, <1>5, <1>6, <1>7, <1>8, <1>9 DEF Next, Exit

\* The call strings of an SPDG start in its target.
LEMMA RootOfString ==
    ASSUME program \in Programs, NEW t \in Fn, NEW cs, SpdgString(t, cs),
           determine_async(t) => generator(t) \in Fn
    PROVE  root(cs).function = t
<1>1. CASE ~determine_async(t)
  BY <1>1 DEF SpdgString, StringOK, IsCallString
<1>2. CASE determine_async(t)
  <2> DEFINE r == generator(t)
             ds == Tail(cs)
             loc == GlobalLocation(t, generator_loc(code(t)))
  <2>1. cs = push_front(ds, loc) /\ StringOK(r, ds) /\ r \in Fn /\ loc.function = t
    BY <1>2 DEF SpdgString, GlobalLocation
  <2> HIDE DEF r, ds, loc
  <2>2. ds \in Seq(locations(ds))
    BY <2>1, StringFacts
  <2>3. root(cs) = loc
    BY <2>1, <2>2 DEF push_front, root
  <2> QED BY <2>1, <2>3
<1> QED BY <1>1, <1>2

\* The types of a node are the marked ones inside its own.
LEMMA TypesOfNode ==
    ASSUME PlacesDeclared, TInv, NEW t, NEW n, SpdgNode(t, n), ty_nodes(t, n) \subseteq type_handled,
           place_type(t, n) # {}, ~T!Recursive(declared_type(n)), types.kind[declared_type(n)] # "Alias"
    PROVE  type_assigns(t, n) = T!MarkedSubtypes(declared_type(n))
<1> DEFINE D == declared_type(n)
           y == [ty |-> D, projected |-> n.place.projection # <<>>]
<1>1. place_type(t, n) = {D}
  BY DEF place_type, declared_type
<1>2. ty_nodes(t, n) = {y}
  BY <1>1 DEF ty_nodes
<1>3. y \in TyNode /\ y \in type_handled /\ y.ty = D
  BY <1>2, NodeAsks
<1>4. D \in Ty
  BY <1>3 DEF TyNode
<1>5. type_assigns(t, n) = node_types[y]
  BY <1>2 DEF type_assigns
<1> HIDE DEF y, D
<1>6. /\ node_types[y] \subseteq T!MarkedSubtypes(D) \cup T!shallow_type_markers(D)
      /\ T!MarkedSubtypes(D) \subseteq node_types[y]
  BY <1>3 DEF TInv, T!NodeTypesRight, D
<1>7. T!Reaches(Ty, T!HasInside, D, D)
  BY DEF T!Reaches
<1>8. T!shallow_type_markers(D) \subseteq T!MarkedSubtypes(D)
  BY <1>7 DEF T!shallow_type_markers, T!MarkedSubtypes, D
<1> QED BY <1>5, <1>6, <1>8 DEF D

\* The lookups in a description that was written.
LEMMA LooksUp ==
    ASSUME CInv, Premises, MInv, TInv, DInv, TypesHandled, phase = "written"
    PROVE  LookupsRight
<1> SUFFICES ASSUME NEW g \in all_nodes
             PROVE  /\ \A m \in Marker :
                        /\ has_marker(g, m) <=> g \in nodes_marked_any_way(m)
                        /\ ~marked_amiss(g) =>
                            (has_marker(g, m) <=>
                                \/ m \in markers_of(spdgs[g.controller], g.node)
                                \/ T!MarkedSubtypes(declared_type(g.node)) # {})
                    /\ \A cs \in consuming_call_sites(g) : g \in inputs_of(cs) /\ outputs_of(cs) # {}
  BY DEF LookupsRight
<1>0. PICK t \in DOMAIN spdgs : g \in all_nodes_for_ctrl(t)
  BY DEF all_nodes
<1>1. PICK n \in spdgs[t].nodes : g = GlobalNode(t, n)
  BY <1>0 DEF all_nodes_for_ctrl
<1>2. g.controller = t /\ g.node = n
  BY <1>1 DEF GlobalNode
<1>3. \A u, k : g = GlobalNode(u, k) <=> (u = t /\ k = n)
  BY <1>1 DEF GlobalNode
<1>4. /\ program \in Programs /\ t \in Fn /\ SpdgNode(t, n)
      /\ \A e \in spdgs[t].edges : SpdgString(t, e.at)
  BY DEF CInv, SInv, IInv, Frames, Spdgs, SpdgGraph, nodes_of
<1>5. description.type_info = types.marked
  BY DEF DInv, Described
<1>6. ASSUME NEW m \in Marker
      PROVE  g \in build_index_on_markers(m).nodes <=> m \in spdgs[t].markers[n]
  BY <1>1, <1>3 DEF build_index_on_markers
<1>7. ASSUME NEW m \in Marker
      PROVE  has_marker(g, m) <=>
                m \in spdgs[t].markers[n] \/ type_assigns(t, n) \cap types.marked # {}
  BY <1>2, <1>5, <1>6 DEF has_marker, type_assigns_of, build_index_on_markers
<1>8. ASSUME NEW m \in Marker
      PROVE  g \in nodes_marked_via_type(m) <=> type_assigns(t, n) \cap types.marked # {}
  <2>1. \A u \in DOMAIN spdgs : \A ty : g \in srcs_with_type(u, ty) <=> (u = t /\ ty \in type_assigns(t, n))
    BY <1>1, <1>2, <1>3 DEF srcs_with_type, has_type, type_assigns_of, all_nodes_for_ctrl
  <2> QED BY <1>5, <2>1 DEF nodes_marked_via_type, build_index_on_markers
<1>9. ASSUME NEW m \in Marker
      PROVE  has_marker(g, m) <=> g \in nodes_marked_any_way(m)
  BY <1>6, <1>7, <1>8 DEF nodes_marked_any_way, marked_nodes
<1>10. ASSUME NEW m \in Marker, ~marked_amiss(g)
       PROVE  has_marker(g, m) <=>
                \/ m \in markers_of(spdgs[t], n)
                \/ T!MarkedSubtypes(declared_type(n)) # {}
  <2>1. /\ ~captured(n) /\ ~into_future_of(spdgs[t], n) /\ place_type(t, n) # {}
        /\ ~T!Recursive(declared_type(n)) /\ types.kind[declared_type(n)] # "Alias"
    BY <1>2, <1>10 DEF marked_amiss
  <2>2. spdgs[t].markers[n] = markers_of(spdgs[t], n)
    <3>1. MarkersRight
      BY MarkersTold
    <3>2. n \in {k \in spdgs[t].nodes : ~captured(k)}
      BY <2>1
    <3> QED BY <2>1, <3>1, <3>2 DEF MarkersRight
  <2>3. ty_nodes(t, n) \subseteq type_handled
    BY DEF TypesHandled
  <2>4. type_assigns(t, n) = T!MarkedSubtypes(declared_type(n))
    BY <1>4, <2>1, <2>3, TypesOfNode DEF Premises
  <2>5. T!MarkedSubtypes(declared_type(n)) \subseteq types.marked
    BY DEF T!MarkedSubtypes
  <2> QED BY <1>7, <2>2, <2>4, <2>5
<1>11. ASSUME NEW cs \in consuming_call_sites(g)
       PROVE  g \in inputs_of(cs) /\ outputs_of(cs) # {}
  <2>1. PICK e \in spdgs[t].edges : e.from = n /\ e.at = cs
    BY <1>2 DEF consuming_call_sites, out_edges
  <2>2. determine_async(t) => generator(t) \in Fn
    BY <1>4, ProgramsAssumption DEF determine_async, generator, code
  <2>3. root(cs).function = t
    BY <1>4, <2>1, <2>2, RootOfString
  <2> QED BY <1>1, <2>1, <2>3 DEF inputs_of, outputs_of
<1> QED BY <1>2, <1>9, <1>10, <1>11

(***************************************************************************)
(* From the source to the policy: in every written description the index   *)
(* of markers and the lookup by node agree, a node has the markers that    *)
(* the program gives it, save for what is known to go amiss, and a call    *)
(* site that consumes a node finds it again among its inputs.              *)
(***************************************************************************)
THEOREM Lookups == Spec /\ PlacesDeclared /\ CallsApart /\ CallsMarked => []LookupsRight
<1>1. CInv /\ Premises /\ MInv /\ TInv /\ DInv /\ TypesHandled => LookupsRight
  BY LooksUp DEF LookupsRight
<1>2. Init => Asking /\ TypesHandled
  BY DEF Init, NothingGenerated, Asking, TypesHandled
<1>3. PlacesDeclared /\ CallsApart /\ CallsMarked => Premises
  BY DEF Premises
<1>4. Premises => PlacesDeclared
  BY DEF Premises
<1> QED BY <1>1, <1>2, <1>3, <1>4, PremisesKept, InitCInv, CInvStep, InitMInv, MInvStep, InitTInv, TInvStep,
           AskingStep, InitDInv, DInvStep, HandledStep, PTL DEF Spec
=============================================================================
