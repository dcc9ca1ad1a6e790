------------------------------- MODULE MCMain -------------------------------
(***************************************************************************)
(* Main on a small instance.  The threads are started for one of the files *)
(* only, since nothing but NUM matters to them, and a behaviour has either *)
(* statuses or a conversion, which share nothing.                          *)
(***************************************************************************)
EXTENDS Main

(* Three of the sections, a key two of them share, a repeated key and a remark. *)
KnownLines ==
    {SectionLine("LOG"), SectionLine("TRAFFICHIVELOG"), SectionLine("WORKTHREADS"),
     KeyLine("PATH", "a"), KeyLine("PATH", "b"), KeyLine("NUM", N), OtherLine}

(* [QUERYAPIS] with two hosts, one of them twice. *)
UrlGroup(h, p) == <<h, p, "province", "operator", "limit">>
UrlLines ==
    {SectionLine("QUERYAPIS"), SectionLine("LOG"),
     KeyLine("URLS", <<UrlGroup("h1", "9999")>>),
     KeyLine("URLS", <<UrlGroup("h1", "1"), UrlGroup("h2", "9999")>>),
     KeyLine("URLS", <<UrlGroup("h2", "1"), UrlGroup("h2", "2")>>),
     KeyLine("URLS", <<>>)}

MCLines == KnownLines \cup UrlLines

(* Every byte, and every pair of a plain letter, a digit, the characters with *)
(* a meaning of their own and the ends of the range.                         *)
Bytes == 1 .. 255
Edge == {1, 32, 37, 43, 45, 48, 70, 97, 127, 128, 255}
MCUrlTexts == {<<>>} \cup {<<b>> : b \in Bytes} \cup (Edge \X Edge) \cup (Edge \X Edge \X Edge)

(* Whole, cut and nonsense escapes: '%', '+', '0', 'F', 'a', 'z'. *)
Raw == {37, 43, 48, 70, 97, 122}
MCUrlRequests == UNION {[1 .. n -> Raw] : n \in 0 .. 4}

(* Every byte alone, and short texts over bytes with all bits in play. *)
Bits == {0, 1, 85, 128, 170, 255}
MCBase64Texts == {<<b>> : b \in 0 .. 255} \cup UNION {[1 .. n -> Bits] : n \in 0 .. 3}
                 \cup [1 .. 5 -> {0, 170, 255}]

(* Up to three parts: whole, without a value, with a second '='; words recur. *)
Parts == UNION {[1 .. n -> {"a", "b", "c"}] : n \in 1 .. 3}
MCQueries == UNION {[1 .. n -> Parts] : n \in 0 .. 3}

(* Around every place where the int32_t wraps. *)
MCDays == (0 .. 400) \cup (24850 .. 24860) \cup (49705 .. 49715) \cup (99420 .. 99425)

-----------------------------------------------------------------------------
PlainFile == <<SectionLine("WORKTHREADS"), KeyLine("NUM", N)>>

\* Threads that could not be made; none, one, or all of them.
Missing == next - 1 - Cardinality(DOMAIN routine)

\* The other threads leave the vectors alone: they may as well come later.
WorkersRest == \A w \in Workers : Running(<<"Worker", w>>) => wPc[w] \in {"wait", "wild"}

MCNext ==
    \/ LoadPart
    \/ /\ file = PlainFile
       /\ next > N => WorkersRest
       /\ MainPart
       /\ Missing' <= 1 \/ routine' = << >>
    \/ \E w \in Workers : WorkerPart(w)
    \/ Missing = 0 /\ call = NoCall /\ StatusPart
    \/ PushPart
    \/ TakePart
    \/ Missing = 0 /\ pushed = 0 /\ CallPart
    \/ ConvertPart

(* A push that began ends and the server's loop runs. *)
MCSpec == Init /\ [][MCNext]_vars /\ WF_vars(PushPart) /\ WF_vars(TakePart)

=============================================================================
