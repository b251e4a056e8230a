----------------------------- MODULE CodeSlice -----------------------------
(***************************************************************************)
(* Which lines of a source file are returned for an incident: the methods  *)
(* named, or a window around the line of the fault.  A text is a sequence  *)
(* of lines that begin a method, open or close a block, or do neither.     *)
(***************************************************************************)
EXTENDS Integers, Sequences, FiniteSetsExt

CONSTANTS
    Text,         \* files: sequences of the set Line
    MaxLines,     \* DEFAULT_MAX_CODE_READ_LINES
    Margin,       \* lines kept after the fault when a method is too long
    LinesBefore, LinesAfter \* lines around a fault before every method

Method == {"m1", "m2"}
Line == [kind : {"method", "open", "close", "plain"}, name : Method]

SliceAssumption ==
    /\ Text \subseteq Seq(Line)
    /\ MaxLines \in Nat \ {0} /\ Margin \in 1 .. MaxLines
    /\ LinesBefore \in Nat /\ LinesAfter \in Nat

ASSUME SliceAssumption

VARIABLE slice   \* the text, the request and the lines returned

-----------------------------------------------------------------------------
(* Methods. *)

Depth(text, first, n) ==
    Cardinality({i \in first .. n : text[i].kind \in {"method", "open"}})
    - Cardinality({i \in first .. n : text[i].kind = "close"})

\* Braces are counted from the start of the method; one that is never closed goes to the end.
MethodEnd(text, first) ==
    LET ends == {n \in first .. Len(text) :
                    text[n].kind = "close" /\ Depth(text, first, n) = 0
                    /\ \E i \in first .. n : text[i].kind \in {"method", "open"}}
    IN  IF ends = {} THEN Len(text) ELSE Min(ends)

Starts(text) == {i \in DOMAIN text : text[i].kind = "method"}
MethodStart(text, focus) == {i \in Starts(text) : i <= focus}

\* The definition at or before the line, else the nearest; without a line the first.
NamedMethodSpan(text, name, focus) ==
    LET named == {i \in Starts(text) : text[i].name = name}
        before == {i \in named : i <= focus}
        first == IF focus = 0 THEN Min(named) ELSE IF before # {} THEN Max(before) ELSE Min(named)
    IN  IF named = {} THEN {} ELSE first .. MethodEnd(text, first)

ExtractNamedMethods(text, names, focus) == UNION {NamedMethodSpan(text, n, focus) : n \in names}

Lower(x, y) == IF x < y THEN x ELSE y
Upper(x, y) == IF x > y THEN x ELSE y

\* A window that is too long keeps the lines up to a margin after the fault.
ClampWindow(first, last, total, focus) ==
    LET to == Lower(total, Upper(first, last))
        at == Upper(first, Lower(IF focus = 0 THEN to ELSE focus, to))
        from == Upper(first, at - MaxLines + Margin)
        until == Lower(to, from + MaxLines - 1)
    IN  IF to - first + 1 <= MaxLines THEN first .. to
        ELSE Upper(first, until - MaxLines + 1) .. until

\* end = 0: not given; focus = 0: not given.
ReadRequest == [start : 1 .. 2, end : {0, 2, 4}, focus : 0 .. 5, methods : SUBSET Method]

AroundFocus(text, focus) ==
    LET f == Lower(focus, Len(text))
        first == Max(MethodStart(text, f))
    IN  IF MethodStart(text, f) # {}
        THEN ClampWindow(first, MethodEnd(text, first), Len(text), f)
        ELSE ClampWindow(Upper(1, f - LinesBefore), Lower(Len(text), f + LinesAfter), Len(text), f)

\* Lines from the second on are cut as asked; then the methods; then the fault; and a request
\* from the first line to another returns the whole text.
SourceWindow(text, q) ==
    CASE text = <<>> -> {}
      [] text # <<>> /\ q.end > 0 /\ q.start > 1 ->
            ClampWindow(q.start, Lower(Len(text), q.end), Len(text), q.focus)
      [] text # <<>> /\ ~(q.end > 0 /\ q.start > 1)
            /\ ExtractNamedMethods(text, q.methods, q.focus) # {} ->
            ExtractNamedMethods(text, q.methods, q.focus)
      [] text # <<>> /\ ~(q.end > 0 /\ q.start > 1)
            /\ ExtractNamedMethods(text, q.methods, q.focus) = {} /\ q.focus # 0 ->
            AroundFocus(text, q.focus)
      [] OTHER -> IF Len(text) > MaxLines /\ q.end = 0 THEN 1 .. MaxLines ELSE 1 .. Len(text)

\* A read cuts what it has read to what was asked for.
SlicedResult ==
    \E text \in Text, q \in ReadRequest :
        slice' = [text |-> text, request |-> q, lines |-> SourceWindow(text, q)]

SliceInit == slice = [text |-> <<>>, request |-> [start |-> 1, end |-> 0, focus |-> 0, methods |-> {}], lines |-> {}]

SliceNext == slice.text = <<>> /\ SlicedResult

SliceSpec == SliceInit /\ [][SliceNext]_slice

-----------------------------------------------------------------------------
\* Unless methods are named, or the text is asked for from its first line to a given one, at
\* most MaxLines are returned, and of the method that holds the fault, the fault itself
\* (code_slice.py:180).
WindowBounded ==
    slice.text # <<>> /\ slice.request.methods = {} =>
        LET q == slice.request
            text == slice.text
            at == Lower(q.focus, Len(text))
            before == MethodStart(text, at)
        IN  /\ q.end = 0 \/ q.start > 1 \/ q.focus # 0 => Cardinality(slice.lines) <= MaxLines
            /\ q.focus # 0 /\ q.end = 0 /\ (before = {} \/ MethodEnd(text, Max(before)) >= at)
                  => at \in slice.lines

\* A request with a fault line gets a window around that line (code_slice.py:84).
FaultLineKept ==
    slice.text # <<>> /\ slice.request.methods = {} /\ slice.request.end = 0
        /\ slice.request.focus \in DOMAIN slice.text
    => slice.request.focus \in slice.lines

=============================================================================
