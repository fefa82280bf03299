------------------------------ MODULE Requests ------------------------------
(***************************************************************************)
(* What binancebeast sends and to whom: the target of a REST request with   *)
(* its timestamp and signature, the target of a stream, urlEncode, and the  *)
(* configuration made from a key file.                                      *)
(*                                                                          *)
(* Text is a sequence of bytes, because urlEncode works on signed chars and *)
(* the server takes the text apart again.  "timestamp" and "signature" are  *)
(* shortened to "t" and "s", and the time to a digit.                       *)
(*                                                                          *)
(* All of it is local to the calling thread but one thing: HMAC is given    *)
(* NULL for its result, so OpenSSL puts the digest in a static array, from  *)
(* which createSignature reads it after the call.                           *)
(***************************************************************************)
EXTENDS Integers, Sequences, FiniteSets, SequencesExt

CONSTANTS
  Threads,  \* threads in sendRestRequest: the application's, or users' handlers
  Values,   \* what the application means by its parameters
  Bytes,    \* bytes that it sends by themselves, in an unsigned request
  Names,    \* the names of parameters
  Streams,  \* the names of streams, such as "btcusdt@aggTrade"
  MaxParams,  \* bound: parameters of a request
  MaxStreams, \* bound: streams of a combined stream
  Followed  \* bound: configurations with which requests are followed; what is
            \* sent does not depend on it

\* Names are Binance's, and have none of "&", "/", "=" and "?".
IsWord(w) ==
  w \in Seq(0..255) /\ w # <<>> /\ \A i \in DOMAIN w : w[i] \notin {38, 47, 61, 63}

ASSUME RequestsAssumption ==
  /\ Values \subseteq Seq(0..255)
  /\ Bytes \subseteq 0..255
  /\ \A w \in Names \cup Streams : IsWord(w)
  /\ MaxParams \in Nat
  /\ MaxStreams \in Nat

VARIABLES
  config,   \* m_config: the mark of the key file, and the hosts
  digest,   \* OpenSSL's static array
  asked,    \* the request each thread sent last, or is sending
  signing,  \* threads between HMAC and b2a_hex
  target    \* target of the last request each thread sent

vars == <<config, digest, asked, signing, target>>

Slash == <<47>>
Ask == <<63>>
Is == <<61>>
And == <<38>>
Percent == 37
Plus == 43

-----------------------------------------------------------------------------
(* urlEncode and to_hex.  char is signed; >> rounds down, % towards zero.    *)

Signed(b) == IF b < 128 THEN b ELSE b - 256

Remainder(c, n) == IF c < 0 THEN -((-c) % n) ELSE c % n

to_hex(x) == LET u == x % 256 IN (u + (IF u > 9 THEN 65 - 10 ELSE 48)) % 256

Allowed == (97..122) \cup (65..90) \cup (48..57)

\* Mutant: the low digit is not the remainder.
EncodedByte_Shift(b) ==
  IF b \in Allowed THEN <<b>>
  ELSE IF b = 32 THEN <<Plus>>
  ELSE <<Percent, to_hex(Signed(b) \div 16), to_hex(Signed(b))>>

EncodedByte(b) ==
  IF b \in Allowed THEN <<b>>
  ELSE IF b = 32 THEN <<Plus>>
  ELSE <<Percent, to_hex(Signed(b) \div 16), to_hex(Remainder(Signed(b), 16))>>

urlEncode(s) == FlattenSeq([i \in DOMAIN s |-> EncodedByte(s[i])])

-----------------------------------------------------------------------------
(* ConnectionConfig.                                                         *)

Markets == {"USDM", "COINM", "SPOT"}

\* A key file: its size and its three lines.  The mark is compared whole, so
\* "live" and a carriage return is another text.  Keys given as strings, or
\* none, are like those of a file with another mark.
KeyFiles == [exists : BOOLEAN, size : {140, 141}, mark : {"live", "test", "other"}]

\* Mutant: only live keys are kept off the testnet.
Accepts_OneWay(f, isLive) ==
  f.exists /\ f.size <= 140 /\ ~(f.mark = "live" /\ ~isLive)

\* readKeyFile returns the second and third line, or throws.
Accepts(f, isLive) ==
  /\ f.exists
  /\ f.size <= 140
  /\ ~(f.mark = "live" /\ ~isLive)
  /\ ~(f.mark = "test" /\ isLive)

Hosts(isLive, market) ==
  CASE market = "USDM" -> IF isLive
         THEN [rest |-> "fapi.binance.com", ws |-> "fstream.binance.com"]
         ELSE [rest |-> "testnet.binancefuture.com", ws |-> "stream.binancefuture.com"]
    [] market = "COINM" -> IF isLive
         THEN [rest |-> "dapi.binance.com", ws |-> "dstream.binance.com"]
         ELSE [rest |-> "testnet.binancefuture.com", ws |-> "dstream.binancefuture.com"]
    [] market = "SPOT" -> IF isLive
         THEN [rest |-> "api.binance.com", ws |-> "stream.binance.com"]
         ELSE [rest |-> "testnet.binance.vision", ws |-> "testnet.binance.vision"]

Config(mark, hosts) == [mark |-> mark, rest |-> hosts.rest, ws |-> hosts.ws]

NoConfig == Config("none", [rest |-> "", ws |-> ""])

\* MakeLiveConfig or MakeTestNetConfig, and start.
Configure(f, isLive, market) ==
  /\ config = NoConfig
  /\ Accepts(f, isLive)
  /\ config' = Config(f.mark, Hosts(isLive, market))
  /\ UNCHANGED <<digest, asked, signing, target>>

-----------------------------------------------------------------------------
(* createRestSession: target and signature.  queryParams is an unordered     *)
(* map, so the parameters come in any order, with different names.           *)

\* The text that the application passes: what it means, or that through
\* urlEncode, as neworder.cpp does with its order and with nothing else.
Given(w, v) == {[name |-> w, meant |-> v, text |-> e] : e \in {v, urlEncode(v)}}

Params ==
  {p \in UNION {[1..n -> UNION {Given(w, v) : w \in Names, v \in Values}] : n \in 0..MaxParams} :
     \A i, j \in DOMAIN p : p[i].name = p[j].name => i = j}

RestRequests ==
  LET of(params, signs) ==
        [path : {Slash \o <<112>>}, params : params, sign : signs, streams : {<<>>}]
  IN  of(Params, BOOLEAN)
        \cup of({<<p>> : p \in UNION {Given(w, <<b>>) : w \in Names, b \in Bytes}}, {FALSE})

\* The texts are written as they are given.
Pairs(params) ==
  FlattenSeq([i \in DOMAIN params |-> params[i].name \o Is \o params[i].text \o And])

\* What is signed: from after the "?" to before "&signature".
SignedText(r) == Pairs(r.params) \o <<116>> \o Is \o <<49>>

\* HMAC_SHA256, for which it is enough that different texts differ.
Hmac(text) == <<7>> \o text

b2a_hex(bytes) ==
  LET Digit(n) == IF n > 9 THEN 97 - 10 + n ELSE 48 + n
  IN  FlattenSeq([i \in DOMAIN bytes |-> <<Digit(bytes[i] \div 16), Digit(bytes[i] % 16)>>])

SignedTarget(r, d) ==
  r.path \o Ask \o SignedText(r) \o And \o <<115>> \o Is \o b2a_hex(d)

\* Mutant: no "&" after a parameter but between them.
PlainTarget_NoSeparator(r) ==
  IF r.params = <<>> THEN r.path
  ELSE r.path \o Ask \o FlattenSeq([i \in DOMAIN r.params |->
         r.params[i].name \o Is \o r.params[i].text])

\* Without parameters the path goes as it is, signed or not.
PlainTarget(r) ==
  IF r.params = <<>> THEN r.path ELSE r.path \o Ask \o Pairs(r.params)

Signs(r) == r.sign /\ r.params # <<>>

Nothing == [path |-> <<>>, params |-> <<>>, sign |-> FALSE, streams |-> <<>>]

Init ==
  /\ config = NoConfig
  /\ digest = <<>>
  /\ asked = [t \in Threads |-> Nothing]
  /\ signing = {}
  /\ target = [t \in Threads |-> <<>>]

\* The thread is not inside createSignature.
Free(t) == config \in Followed /\ t \notin signing

SendUnsigned(t, r) ==
  /\ Free(t)
  /\ ~Signs(r)
  /\ asked' = [asked EXCEPT ![t] = r]
  /\ target' = [target EXCEPT ![t] = PlainTarget(r)]
  /\ UNCHANGED <<config, digest, signing>>

\* Mutant: the text is signed after it was moved into the target.
Sign_MovedFrom(t, r) ==
  /\ Free(t)
  /\ Signs(r)
  /\ asked' = [asked EXCEPT ![t] = r]
  /\ signing' = signing \cup {t}
  /\ digest' = Hmac(<<>>)
  /\ UNCHANGED <<config, target>>

\* createSignature as far as HMAC returns.  The text has been passed through
\* std::move to operator+, which takes over its buffer only if that has room
\* for the path; str() leaves none, so the text is still there to be signed.
Sign(t, r) ==
  /\ Free(t)
  /\ Signs(r)
  /\ asked' = [asked EXCEPT ![t] = r]
  /\ signing' = signing \cup {t}
  /\ digest' = Hmac(SignedText(r))
  /\ UNCHANGED <<config, target>>

\* b2a_hex reads the array.
SendSigned(t) ==
  /\ t \in signing
  /\ signing' = signing \ {t}
  /\ target' = [target EXCEPT ![t] = SignedTarget(asked[t], digest)]
  /\ UNCHANGED <<config, digest, asked>>

-----------------------------------------------------------------------------
(* startWebSocket of several: "/stream?streams=" and each name with a "/".   *)

StreamRequests ==
  [path : {Slash \o <<115>>}, params : {<<>>}, sign : {FALSE},
   streams : UNION {[1..n -> Streams] : n \in 1..MaxStreams}]

CombinedTarget(r) ==
  r.path \o Ask \o <<115>> \o Is
    \o FlattenSeq([i \in DOMAIN r.streams |-> r.streams[i] \o Slash])

startWebSocket(t, r) ==
  /\ Free(t)
  /\ asked' = [asked EXCEPT ![t] = r]
  /\ target' = [target EXCEPT ![t] = CombinedTarget(r)]
  /\ UNCHANGED <<config, digest, signing>>

Next ==
  \/ \E f \in KeyFiles, isLive \in BOOLEAN, market \in Markets : Configure(f, isLive, market)
  \/ \E t \in Threads :
       \/ SendSigned(t)
       \/ \E r \in RestRequests : SendUnsigned(t, r) \/ Sign(t, r)
       \/ \E r \in StreamRequests : startWebSocket(t, r)

Spec == Init /\ [][Next]_vars

-----------------------------------------------------------------------------
(* The server's reading of a target, for reference.                          *)

Put(parts, b, byte) ==
  IF b = byte THEN Append(parts, <<>>) ELSE [parts EXCEPT ![Len(parts)] = Append(@, b)]

Split(s, byte) ==
  LET parts[n \in 0..Len(s)] ==
        IF n = 0 THEN <<<<>>>> ELSE Put(parts[n - 1], s[n], byte)
  IN  parts[Len(s)]

NonEmpty(parts) ==
  FlattenSeq([i \in DOMAIN parts |-> IF parts[i] = <<>> THEN <<>> ELSE <<parts[i]>>])

\* A byte that is no hexadecimal digit gives a number that is no byte.
HexValue(b) ==
  CASE b \in 48..57 -> b - 48
    [] b \in 65..70 -> b - 55
    [] b \in 97..102 -> b - 87
    [] OTHER -> -1000

FromHex(s) ==
  [i \in 1..(Len(s) \div 2) |-> 16 * HexValue(s[2 * i - 1]) + HexValue(s[2 * i])]

\* digits: how many are still to come after a "%".
ReadNothing == [out |-> <<>>, digits |-> 0, high |-> 0]

Read(d, b) ==
  CASE d.digits = 2 -> [d EXCEPT !.high = HexValue(b), !.digits = 1]
    [] d.digits = 1 -> [d EXCEPT !.out = Append(@, 16 * d.high + HexValue(b)), !.digits = 0]
    [] d.digits = 0 /\ b = Percent -> [d EXCEPT !.digits = 2]
    [] d.digits = 0 /\ b # Percent ->
         [d EXCEPT !.out = Append(@, IF b = Plus THEN 32 ELSE b)]

Decoding(s) ==
  LET read[n \in 0..Len(s)] == IF n = 0 THEN ReadNothing ELSE Read(read[n - 1], s[n])
  IN  read[Len(s)]

Decoded(s) == Decoding(s).out

\* What stands before and after the first of a byte in a text.
FirstOf(s, byte) ==
  CHOOSE n \in 1..(Len(s) + 1) :
    /\ n = Len(s) + 1 \/ s[n] = byte
    /\ \A i \in 1..(n - 1) : s[i] # byte

Before(s, byte) == SubSeq(s, 1, FirstOf(s, byte) - 1)

After(s, byte) == SubSeq(s, FirstOf(s, byte) + 1, Len(s))

QueryRead(t) == After(t, Ask[1])

ParamsRead(t) ==
  LET Param(part) == [name |-> Before(part, Is[1]), value |-> Decoded(After(part, Is[1]))]
      parts == NonEmpty(Split(QueryRead(t), And[1]))
  IN  [i \in DOMAIN parts |-> Param(parts[i])]

StreamsRead(t) == NonEmpty(Split(After(QueryRead(t), Is[1]), Slash[1]))

\* The bytes that a query may have between two "&": no blank, no "#".
QueryBytes == (33..126) \ {35, 38}

\* Every text that the application passes can stand in a query.
Fits(r) ==
  \A i \in DOMAIN r.params : \A k \in DOMAIN r.params[i].text : r.params[i].text[k] \in QueryBytes

Sent(t) == asked[t] # Nothing /\ t \notin signing

-----------------------------------------------------------------------------
(* Properties.                                                               *)

TypeOK ==
  /\ digest \in {<<>>} \cup {Hmac(SignedText(r)) : r \in RestRequests}
  /\ asked \in [Threads -> RestRequests \cup StreamRequests \cup {Nothing}]
  /\ signing \in SUBSET Threads
  /\ DOMAIN target = Threads

\* If every text passed can stand in a query, as every text that urlEncode
\* returns can, the server takes out of the target the path, and the parameters
\* by the names that the application gave them, in their order, and beside them
\* a timestamp and a signature exactly when it was asked to sign and there are
\* parameters; out of the target of a combined stream it takes their names.
ReadAsAsked ==
  \A t \in Threads :
    Sent(t) /\ Fits(asked[t]) =>
      LET r == asked[t]
          n == Len(r.params)
      IN  /\ Before(target[t], Ask[1]) = r.path
          /\ n > 0 => /\ Len(ParamsRead(target[t])) = n + (IF r.sign THEN 2 ELSE 0)
                      /\ \A i \in 1..n : ParamsRead(target[t])[i].name = r.params[i].name
          /\ r.streams # <<>> => StreamsRead(target[t]) = r.streams

Ascii(s) == \A k \in DOMAIN s : s[k] < 128

\* "Encode the string as a URL": in such a request the server reads the value
\* that the application meant, whatever ASCII it is if it was encoded, and if it
\* was not encoded, when it has no "%" and no "+".
ValuesArrive ==
  \A t \in Threads :
    Sent(t) /\ Fits(asked[t]) =>
      \A i \in DOMAIN asked[t].params :
        LET p == asked[t].params[i]
        IN  \/ p.text = urlEncode(p.meant) /\ Ascii(p.meant)
            \/ p.text = p.meant /\ \A k \in DOMAIN p.text : p.text[k] \notin {Percent, Plus}
            => ParamsRead(target[t])[i].value = p.meant

\* "signing requires a 'signature' param which is a SHA256 of the query
\* params", of the text of this target up to "&signature" and of no other,
\* whatever the application passed.
SignatureIsOwn ==
  \A t \in Threads :
    Sent(t) /\ Signs(asked[t]) =>
      LET query == QueryRead(target[t])
          last == Split(query, And[1])[Len(Split(query, And[1]))]
          text == SubSeq(query, 1, Len(query) - Len(last) - 1)
      IN  FromHex(After(last, Is[1])) = Hmac(text)

\* Keys from a file that says "live" never go to a host of the testnet, and
\* test keys never to a live one, though hosts are shared between markets.
KeysStayApart ==
  LET live == UNION {{Hosts(TRUE, m).rest, Hosts(TRUE, m).ws} : m \in Markets}
  IN  /\ config.mark = "live" => {config.rest, config.ws} \subseteq live
      /\ config.mark = "test" => {config.rest, config.ws} \cap live = {}
=============================================================================
