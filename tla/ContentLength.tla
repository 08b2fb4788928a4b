--------------------------- MODULE ContentLength ---------------------------
(***************************************************************************)
(* pushpin/poc/012-content-length: the loop of process_request over the    *)
(* headers of a request, and the split of what follows them.  A header is  *)
(* a name with a value: a length, chunked, or Bad for any other.           *)
(***************************************************************************)
EXTENDS Integers, Sequences

Bad == -1
NoBody == [kind |-> "NoBody"]
Unknown == [kind |-> "Unknown"]
Known(n) == [kind |-> "Known", size |-> n]

Start == [error |-> "none", content_len |-> Bad, chunked |-> FALSE]

\* One round of the loop: an error ends it, a length replaces any before it.
OneHeader(s, h) ==
    IF s.error # "none" THEN s
    ELSE CASE h.name = "Content-Length" ->
                IF h.value = Bad THEN [s EXCEPT !.error = "InvalidContentLength"]
                ELSE [s EXCEPT !.content_len = h.value]
           [] h.name = "Transfer-Encoding" ->
                IF h.value = Bad THEN [s EXCEPT !.error = "UnsupportedTransferEncoding"]
                ELSE [s EXCEPT !.chunked = TRUE]
           [] OTHER -> s

BodySize(s) ==
    IF s.chunked THEN Unknown ELSE IF s.content_len # Bad THEN Known(s.content_len) ELSE NoBody

\* An error, or the size with whether a chunk of it is left to read.
ProcessRequest(headers) ==
    LET after[k \in 0 .. Len(headers)] ==
            IF k = 0 THEN Start ELSE OneHeader(after[k - 1], headers[k])
        s == after[Len(headers)]
    IN
    [error |-> s.error, size |-> BodySize(s),
     more |-> BodySize(s).kind = "Known" /\ BodySize(s) # Known(0)]

\* main(): the bytes of the body and those left of n that follow the headers.
\* It panics on an error, on any size but Known, and on a body beyond the n.  The
\* parse of those left, and the verdict on what it yields, are left out.
Split(headers, n) ==
    LET r == ProcessRequest(headers) IN
    IF r.error = "none" /\ r.size.kind = "Known" /\ r.size.size <= n
    THEN <<r.size.size, n - r.size.size>>
    ELSE <<>>

-----------------------------------------------------------------------------
Named(name, headers) == {k \in DOMAIN headers : headers[k].name = name}
LastLength(headers) ==
    headers[CHOOSE k \in Named("Content-Length", headers) :
                \A j \in Named("Content-Length", headers) : j <= k].value

\* What is returned depends on three things only: the first bad header, whether
\* there is a Transfer-Encoding, and the last Content-Length.
LastWins(headers, n) ==
    LET r == ProcessRequest(headers)
        last == LastLength(headers)
        bad == {i \in DOMAIN headers : headers[i].name # "Host" /\ headers[i].value = Bad}
        first == CHOOSE i \in bad : \A j \in bad : i <= j
    IN
    IF bad # {} THEN r.error = IF headers[first].name = "Content-Length"
                               THEN "InvalidContentLength" ELSE "UnsupportedTransferEncoding"
    ELSE /\ r.error = "none"
         /\ r.size = IF Named("Transfer-Encoding", headers) # {} THEN Unknown
                     ELSE IF Named("Content-Length", headers) = {} THEN NoBody ELSE Known(last)
         /\ r.more <=> r.size.kind = "Known" /\ r.size.size # 0
         /\ Split(headers, n) = IF r.size.kind = "Known" /\ last <= n THEN <<last, n - last>>
                                ELSE <<>>
=============================================================================
