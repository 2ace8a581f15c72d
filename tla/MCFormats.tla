----------------------------- MODULE MCFormats -----------------------------
(* Inputs for the TLS and HTTP/2 collectors: clients that send a           *)
(* ClientHello with GREASE and shuffled extensions, a client that sends    *)
(* HTTP/2 frames with an HPACK table of its own, and requests whose        *)
(* headers come out of a Go map. What is encoded here is what the          *)
(* collectors have to read back. A behaviour is of one of the three.       *)
EXTENDS Integers, Sequences, SequencesExt

CONSTANTS RandomLength, MaxShift,
          MaxEdits, MaxFrames, MaxLost  \* bounds

VARIABLES part, hello, wrap, follow, lost, edits,    \* a ClientHello on its way
          frames, table, shifted, bytes,             \* HTTP/2 frames sent
          shape                                      \* a request's shape
tls == <<hello, wrap, follow, edits>>
h2 == <<frames, table, shifted, bytes>>
vars == <<part, tls, lost, h2, shape>>

B2(n) == <<n \div 256, n % 256>>
B3(n) == <<0>> \o B2(n)
Vec8(b) == <<Len(b)>> \o b
Vec16(b) == B2(Len(b)) \o b
Words(s) == FlattenSeq([i \in DOMAIN s |-> B2(s[i])])
Vectors(w, names) ==
  FlattenSeq([i \in DOMAIN names |-> IF w = 1 THEN Vec8(names[i]) ELSE Vec16(names[i])])

\* A client, by what it offers; exts lists its extensions as sent.
Client(agent, ciphers, curves, points, protos, wide, versions, exts) ==
  [agent |-> agent, version |-> 771, ciphers |-> ciphers, curves |-> curves, points |-> points,
   protos |-> protos, wide |-> wide, versions |-> versions, sigalgs |-> <<1027, 2052>>,
   name |-> <<120, 46, 121>>, exts |-> exts]
H2 == <<104, 50>>
Chrome == Client({"chrome", "safari"}, <<4865, 255, 4867>>, <<29, 23>>, <<0>>, <<H2, <<104>>>>, 1,
                 <<772, 771>>, <<0, 16, 43, 13>>)
Safari == Client({"safari"}, <<4866, 4865>>, <<29>>, <<0>>, <<H2>>, 1, <<772>>, <<0, 10, 11, 43>>)
ChromeIOS == [Safari EXCEPT !.agent = {"crios", "safari"}]
Curl == Client({"curl"}, <<4866, 4865>>, <<23>>, <<0, 1>>, <<H2>>, 2, <<>>, <<16, 10, 11>>)
Old == Client({"curl"}, <<47>>, <<>>, <<>>, <<>>, 1, <<>>, <<>>)
Clients == {Chrome, Safari, ChromeIOS, Curl, Old}

Body(c, t) == CASE t = 0 -> Vec16(<<1>> \o Vec16(<<7>>) \o <<0>> \o Vec16(c.name))
                [] t = 10 -> Vec16(Words(c.curves))
                [] t = 11 -> Vec8(c.points)
                [] t = 13 -> Vec16(Words(c.sigalgs))
                [] t = 16 -> Vec16(Vectors(c.wide, c.protos))
                [] t = 43 -> Vec8(Words(c.versions))
                [] OTHER -> <<>>
Message(c) ==
  LET exts == FlattenSeq([i \in DOMAIN c.exts |-> B2(c.exts[i]) \o Vec16(Body(c, c.exts[i]))])
      body == B2(c.version) \o [i \in 1..RandomLength |-> 9] \o Vec8(<<5>>)
              \o Vec16(Words(c.ciphers)) \o Vec8(<<0>>)
              \o (IF c.exts = <<>> THEN <<>> ELSE Vec16(exts))
  IN  <<1>> \o B3(Len(body)) \o body
Wire(c, w, f) == (IF w = "record" THEN <<22, 3, 1>> \o Vec16(Message(c)) ELSE Message(c)) \o f
Sent == LET w == Wire(hello, wrap, follow) IN SubSeq(w, 1, Len(w) - lost)

\* What a reader should make of the client's message.
If(c, t, value) == IF t \in ToSet(c.exts) THEN value ELSE <<>>
Offer(c) ==
  [version |-> c.version, ciphers |-> c.ciphers, types |-> c.exts, name |-> If(c, 0, c.name),
   curves |-> If(c, 10, c.curves), points |-> If(c, 11, c.points),
   sigalgs |-> If(c, 13, c.sigalgs), protos |-> If(c, 16, c.protos),
   versions |-> If(c, 43, c.versions)]

Plain == INSTANCE ClientHello WITH JA3Families <- <<>>, KnownJA4 <- {}
Fam(f, deny) == [family |-> f, deny |-> deny]
MCFamilies ==
  LET known == {<<Chrome, Fam("chrome", FALSE)>>, <<Safari, Fam("safari", FALSE)>>,
                <<Curl, Fam("curl", TRUE)>>}
  IN  [j \in {Plain!JA3String(Offer(k[1])) : k \in known} |->
         (CHOOSE k \in known : Plain!JA3String(Offer(k[1])) = j)[2]]
MCKnownJA4 == {Plain!JA4String(Offer(c)) : c \in {Chrome, Safari}}
T == INSTANCE ClientHello WITH JA3Families <- MCFamilies, KnownJA4 <- MCKnownJA4
-----------------------------------------------------------------------------
\* The client greases a list or sends its extensions in another order; the end
\* of the message may be lost, or something may follow it.
Grease == 6682
Greased == {[hello EXCEPT !.ciphers = <<Grease>> \o @], [hello EXCEPT !.exts = <<Grease>> \o @],
            [hello EXCEPT !.curves = Append(@, Grease)],
            [hello EXCEPT !.versions = <<Grease>> \o @]}
SwapAt(s, i) == [s EXCEPT ![i] = s[i + 1], ![i + 1] = s[i]]
Edit == /\ edits < MaxEdits /\ edits' = edits + 1 /\ lost = 0
        /\ UNCHANGED <<part, wrap, follow, lost, h2, shape>>
GreaseHello == Edit /\ hello.exts # <<>> /\ hello' \in Greased
ShuffleHello == /\ Edit
                /\ \E i \in 1..(Len(hello.exts) - 1) :
                     hello' = [hello EXCEPT !.exts = SwapAt(@, i)]
CutHello == /\ lost = 0 /\ follow = <<>>
            /\ lost' \in 1..(Len(Wire(hello, wrap, follow)) - 1)
            /\ UNCHANGED <<part, tls, h2, shape>>

\* HTTP/2. A field: by index or as a literal, which may enter the table, with a
\* name by index or spelled out, in Huffman code or not; or a size update, with
\* which the client empties its table.
IntBytes(n, prefix, high) ==
  IF n < 2 ^ prefix - 1 THEN <<high + n>>
  ELSE LET m == n - (2 ^ prefix - 1)
       IN  <<high + 2 ^ prefix - 1>> \o (IF m < 128 THEN <<m>> ELSE <<128 + (m % 128), m \div 128>>)
X == <<120>>
Field(kind, index, huffman) == [kind |-> kind, index |-> index, huffman |-> huffman]
Indices == {2} \cup (IF table = <<>> THEN {} ELSE {62, 61 + Len(table)})
Fields == {Field("indexed", i, FALSE) : i \in Indices}
          \cup {Field("keep", i, FALSE) : i \in {0, 1, 8}}
          \cup {Field("pass", i, FALSE) : i \in {0} \cup Indices}
          \cup {Field(k, 0, TRUE) : k \in {"keep", "pass"}} \cup {Field("clear", 0, FALSE)}

\* The listed browser sends two settings, one window update and one pseudo-header.
H0 == INSTANCE Http2 WITH Preface <- <<80>>, KnownAkamai <- <<>>
Setting(i, v) == [id |-> <<0, i>>, value |-> <<0, 1, 0, v>>]
MCKnownAkamai ==
  [chrome |-> <<<<Setting(1, 5), Setting(2, 5)>>, <<0, 0, 0, 2>>, <<>>, <<H0!HpackStaticNames[2]>>>>]
H == INSTANCE Http2 WITH Preface <- <<80>>, KnownAkamai <- MCKnownAkamai
NameOf(f, t) == IF f.index = 0 THEN X
                ELSE IF f.index <= 61 THEN H!HpackStaticNames[f.index] ELSE t[f.index - 61]
TableAfter(f, t) == CASE f.kind = "keep" -> <<NameOf(f, t)>> \o t
                      [] f.kind = "clear" -> <<>>
                      [] OTHER -> t
FieldBytes(f) ==
  LET name == IF f.index = 0 THEN <<IF f.huffman THEN 129 ELSE 1>> \o X ELSE <<>>
  IN  CASE f.kind = "indexed" -> IntBytes(f.index, 7, 128)
        [] f.kind = "keep" -> IntBytes(f.index, 6, 64) \o name \o <<1, 0>>
        [] f.kind = "pass" -> IntBytes(f.index, 4, 0) \o name \o <<0>>
        [] f.kind = "clear" -> IntBytes(0, 5, 32)
Shows(f) == f.kind # "clear" /\ ~f.huffman

Frame(type, flags, stream, payload, truth) ==
  [bytes |-> B3(Len(payload)) \o <<type, flags>> \o <<128, 0, 0, stream>> \o payload,
   truth |-> truth]
Word(n) == <<0, 0, 0, n>>
None(type, stream) ==
  [type |-> type, stream |-> Word(stream), settings |-> <<>>, window |-> Word(0),
   priority |-> <<>>, pseudo |-> <<>>, regular |-> <<>>]
Priority(stream) ==
  [stream |-> Word(stream), exclusive |-> TRUE, dependsOn |-> Word(3), weight |-> 7]
PriorityBytes == <<128, 0, 0, 3, 7>>
Simple ==
  {Frame(4, 0, 0, FlattenSeq([i \in 1..n |-> <<0, i, 0, 1, 0, v>>]),
         [None(4, 0) EXCEPT !.settings = [i \in 1..n |-> Setting(i, v)]])
     : n \in {0, 2}, v \in {5, 6}}
  \cup {Frame(8, 0, s, <<128, 0, 0, 2>>, [None(8, s) EXCEPT !.window = Word(2)]) : s \in {0, 1}}
  \cup {Frame(2, 0, 5, PriorityBytes, [None(2, 5) EXCEPT !.priority = <<Priority(5)>>]),
        Frame(6, 0, 0, <<1, 2>>, None(6, 0))}
Headers(fs, padded, weighted) ==
  LET block == FlattenSeq([i \in DOMAIN fs |-> FieldBytes(fs[i].field)])
      inner == (IF weighted THEN PriorityBytes ELSE <<>>) \o block
      shown == SelectSeq(fs, LAMBDA x : Shows(x.field))
      names == [i \in DOMAIN shown |-> shown[i].name]
  IN  Frame(1, (IF padded THEN 8 ELSE 0) + (IF weighted THEN 32 ELSE 0), 1,
            IF padded THEN <<2>> \o inner \o <<0, 0>> ELSE inner,
            [None(1, 1) EXCEPT !.priority = IF weighted THEN <<Priority(1)>> ELSE <<>>,
                               !.pseudo = SelectSeq(names, LAMBDA n : n[1] = 58),
                               !.regular = SelectSeq(names, LAMBDA n : n[1] # 58)])

Send(f) == /\ lost = 0 /\ Len(frames) < MaxFrames
           /\ frames' = Append(frames, f.truth) /\ bytes' = bytes \o f.bytes
OnlyHeaders == frames # <<>> /\ Head(frames).type = 1
SendSimple == /\ ~OnlyHeaders
              /\ \E f \in Simple : Send(f)
              /\ UNCHANGED <<part, tls, lost, table, shifted, shape>>
\* A block of two fields; the second sees the table the first one left. Two such
\* frames come alone, or one that is Light among other frames.
Light(f) == f.kind \in {"indexed", "keep"} /\ ~f.huffman
SendHeaders ==
  /\ OnlyHeaders => Len(frames) = 1
  /\ \A i \in DOMAIN frames : i > 1 => frames[i].type # 1
  /\ \E f, g \in Fields, padded, weighted \in BOOLEAN :
       LET after == TableAfter(f, table)
       IN  /\ g.index - 61 <= Len(after) 
           /\ frames # <<>> => ~padded /\ ~weighted
           /\ frames # <<>> => OnlyHeaders \/ (Light(f) /\ Light(g))
           /\ Send(Headers(<<[field |-> f, name |-> NameOf(f, table)],
                             [field |-> g, name |-> NameOf(g, after)]>>, padded, weighted))
           /\ table' = TableAfter(g, after)
           /\ shifted' = (shifted \/ \E x \in {f, g} : x.kind = "keep" /\ x.huffman)
  /\ UNCHANGED <<part, tls, lost, shape>>
CutFrames == /\ lost = 0 /\ frames # <<>>
             /\ lost' \in 1..MaxLost
             /\ UNCHANGED <<part, tls, h2, shape>>

\* A request's headers in the order a map yields them, or as an SDK lists them,
\* and its cookies in the order the browser sends them.
Name(text, kind) == [text |-> text, kind |-> kind]
Cookie(name, pair) == [name |-> name, pair |-> pair]
Shapes ==
  {[method |-> m, major |-> v, minor |-> v % 2, host |-> TRUE, order |-> o, referer |-> FALSE,
    header |-> <<Name(1, "plain"), Name(2, "plain"), Name(5, "cookie"), Name(9, "plain")>>,
    cookies |-> <<Cookie(3, 1), Cookie(2, 2), Cookie(0, 3), Cookie(2, 1)>>, language |-> l] :
   m \in {<<"g", "e", "t">>, <<"q">>}, v \in {1, 2},
   o \in {<<>>, <<Name(3, "pseudo"), Name(0, "blank"), Name(8, "referer"), Name(2, "plain")>>},
   l \in {<<>>, <<"e", "n", "-", "u", "s", ",", "d", "e">>, <<"d", "e", ";", "q">>}}
Iterate == \E i \in 1..3 : \/ shape' = [shape EXCEPT !.header = SwapAt(@, i)]
                           \/ shape' = [shape EXCEPT !.cookies = SwapAt(@, i)]

NoShape == CHOOSE s \in Shapes : TRUE
J0 == INSTANCE Ja4h WITH HostName <- Name(4, "plain"), KnownJA4H <- {}
J == INSTANCE Ja4h WITH HostName <- Name(4, "plain"), KnownJA4H <- {J0!ComputeJA4H(NoShape)}
Start == /\ \/ /\ part = "tls" /\ hello \in Clients /\ wrap \in {"record", "bare"}
               /\ follow \in {<<>>, <<22, 3>>}
            \/ /\ part # "tls" /\ hello = Old /\ wrap = "bare" /\ follow = <<>>
         /\ shape \in IF part = "shape" THEN Shapes ELSE {NoShape}
         /\ bytes \in IF part = "frames" THEN {<<>>, <<80>>} ELSE {<<>>}
         /\ lost = 0 /\ edits = 0 /\ frames = <<>> /\ table = <<>> /\ shifted = FALSE
Next == \/ part = "tls" /\ (GreaseHello \/ ShuffleHello \/ CutHello)
        \/ part = "frames" /\ (SendSimple \/ SendHeaders \/ CutFrames)
        \/ part = "shape" /\ Iterate /\ UNCHANGED <<part, tls, lost, h2>>
-----------------------------------------------------------------------------
\* ParseClientHello reads back what a client sent, in a record or as a bare
\* message, with GREASE, in any order of extensions, whatever follows the message
\* (parser.go's lengths at six levels of nesting); a message whose end is missing
\* is refused, wherever it was cut.
HelloReadExactly ==
  part = "tls" => T!ParseClientHello(Sent) = IF lost = 0 THEN {Offer(hello)} ELSE {}

\* ParseFrames reads back the frames a client sent, and refuses a capture that
\* ends inside a frame. The names it finds in HPACK blocks are those sent, in
\* order, without the ones in Huffman code, although it neither evicts nor resizes
\* its table; the exception is a Huffman-coded name that entered the client's
\* table, after which indices are no longer the client's (frames.go:360).
Captured == SubSeq(bytes, 1, Len(bytes) - lost)
FramesReadExactly ==
  part = "frames" /\ ~shifted =>
    H!ParseFrames(Captured) = IF lost = 0 THEN {frames} ELSE {}

\* A fingerprint does not change with what varies between a client's requests:
\* GREASE leaves JA3 and JA4 alone, a shuffle of the extensions JA4; frames that
\* follow the first HEADERS leave the Akamai fingerprint alone unless they carry a
\* priority; JA4H does not depend on the order in which a Go map is iterated. Nor
\* do the signals Collect raises on them; a capture cut short raises none.
AkamaiStable ==
  LET old == H!Akamai(frames)
      settled == old # <<>> /\ old[1] # <<>> /\ old[2] # H!Zero /\ old[4] # <<>>
  IN  settled /\ frames' # frames /\ Last(frames').priority = <<>> =>
        /\ H!Akamai(frames') = old
        /\ shifted' \/ \A b \in {"chrome", "curl"} :
                        H!CollectFrames(Captured', b) = H!CollectFrames(Captured, b)
CutRaisesNothing == lost' # 0 /\ ~shifted => H!CollectFrames(Captured', "chrome") = {}
HelloStable ==
  /\ T!JA4String(Offer(hello')) = T!JA4String(Offer(hello))
  /\ T!FilterGREASE(hello'.exts) = T!FilterGREASE(hello.exts)
       => T!JA3String(Offer(hello')) = T!JA3String(Offer(hello))
FingerprintsAreStable ==
  [][/\ part = "tls" => HelloStable
     /\ part = "frames" => AkamaiStable /\ CutRaisesNothing
     /\ part = "shape" => /\ J!ComputeJA4H(shape') = J!ComputeJA4H(shape)
                          /\ J!CollectShape(shape') = J!CollectShape(shape)]_vars

\* A genuine browser's ClientHello, greased and shuffled as browsers do, raises no
\* TLS signal under its own User-Agent: JA4 stays in the allowlist and a JA3 that
\* a shuffle makes unknown accuses nobody. Chrome on iOS is the exception: its
\* TLS is Safari's and its agent counts as Chrome's (families.go:80).
Genuine == hello.agent # {"curl"}
HelloRaisesNothing ==
  part = "tls" /\ lost = 0 /\ Genuine =>
    T!Collect(Sent, <<>>, <<>>, hello.agent) =
      IF hello.agent = ChromeIOS.agent /\ T!FilterGREASE(hello.exts) = Safari.exts
      THEN {"ja3_mismatch"} ELSE {}
=============================================================================
