----------------------------- MODULE ListenAddress -----------------------------
(***************************************************************************)
(* The setting metrics_listen_address: what check_listen_address lets      *)
(* through (src/gucs.c), and which port each server makes of it            *)
(* (src/http_server_backend).  Three pieces of code take the same text     *)
(* apart, each in its own way.                                             *)
(*                                                                         *)
(* A text is a sequence of digits, colons, slashes and letters, which      *)
(* stand for all other characters.  Of these, the blanks and the sign that *)
(* strtol and atoi both skip before a number are left out; ']' and '@',    *)
(* which make urlparse forget a port it has read, matter only behind a     *)
(* colon, where check_listen_address accepts nothing but digits.           *)
(***************************************************************************)
EXTENDS Integers, Sequences, SequencesExt

CONSTANTS
    MaxHost,             \* 255, the longest host
    MaxPort,             \* 65535
    UrlRoom,             \* 120, what is left of listen_address[128] by "http://" and a NUL
    Addresses            \* the texts somebody may configure

Digit  == 0 .. 9
Colon  == -1
Slash  == -2
Letter == -3
Char   == Digit \cup {Colon, Slash, Letter}

ASSUME ListenAddressAssumption ==
    /\ MaxHost \in Nat \ {0}
    /\ MaxPort \in Nat \ {0}
    /\ UrlRoom \in Nat
    /\ \A a \in Addresses : a \in Seq(Char)

Colons(a)   == {i \in DOMAIN a : a[i] = Colon}
First(a)    == {i \in Colons(a) : \A j \in Colons(a) : i <= j}
Final(a)    == {i \in Colons(a) : \A j \in Colons(a) : j <= i}
After(a, i) == SubSeq(a, i + 1, Len(a))

(* strtol and atoi: the value of the digits a text begins with.            *)
Number(s) ==
    LET Take(n, c) == IF n.on /\ c \in Digit THEN [n EXCEPT !.value = 10 * @ + c]
                      ELSE [n EXCEPT !.on = FALSE]
    IN  FoldLeft(Take, [value |-> 0, on |-> TRUE], s).value

(* strtol has read something, and all of it.                               *)
IsNumber(s) == s # <<>> /\ \A i \in DOMAIN s : s[i] \in Digit

(* Variant: what follows the digits is not looked at.                      *)
check_listen_address_prefix(a) ==
    \E i \in First(a) :
        /\ i - 1 \in 1 .. MaxHost
        /\ Number(After(a, i)) \in 1 .. MaxPort

check_listen_address(a) ==
    \E i \in First(a) :
        /\ i - 1 \in 1 .. MaxHost
        /\ IsNumber(After(a, i))
        /\ Number(After(a, i)) \in 1 .. MaxPort

(* The port it has accepted.                                               *)
CheckedPort(a) == {Number(After(a, i)) : i \in First(a)}

(* dumb_create looks for the last colon, and ignores the host.             *)
DumbPort(a) ==
    IF Colons(a) = {} THEN {9187} ELSE {Number(After(a, i)) : i \in Final(a)}

(* mongoose_create makes a URL of it, which snprintf cuts.                 *)
Url(a) == IF Len(a) <= UrlRoom THEN a ELSE SubSeq(a, 1, UrlRoom)

(* The colon that urlparse takes for the one before the port: the first,   *)
(* unless a slash has ended the host already.                              *)
PortColon(a) == {i \in First(a) : \A j \in 1 .. i - 1 : a[j] # Slash}

(* mg_url_port: 80, the port of "http:", unless the URL has one.           *)
MongoosePort(a) ==
    IF PortColon(Url(a)) = {} THEN {80}
    ELSE {Number(After(Url(a), i)) : i \in PortColon(Url(a))}
=============================================================================
