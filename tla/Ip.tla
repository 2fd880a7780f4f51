--------------------------------- MODULE Ip ---------------------------------
(***************************************************************************)
(* The check of a server's address (ip.c).  A text goes through two        *)
(* parsers: inet_pton, whose result is stored, and dotted_to_ipaddr, whose *)
(* result decides whether the address is that of a host and is written     *)
(* back over the text.                                                     *)
(*                                                                         *)
(* A text is what lies between its dots, each a sequence of digits, and    *)
(* whether there are blanks around or between and other characters; or an  *)
(* IPv6 address of some kind.                                              *)
(***************************************************************************)
EXTENDS Integers, Sequences, SequencesExt

CONSTANTS
  Fields,      \* sequences of digits to make texts from
  BufLen,      \* sizeof(buf) in dotted_to_ipaddr (20)
  IntMod       \* 2^32: atoi() returns an int

ASSUME IpAssumption == BufLen \in Nat /\ BufLen >= 16 /\ IntMod \in Nat /\ IntMod > 2 * 999

VARIABLES
  text,        \* server_ip
  jaddr,       \* *jaddr
  ret,         \* what check_host_ip_and_get_verion returned
  pc

vars == <<text, jaddr, ret, pc>>

Kinds6 == {"unspecified", "loopback", "host"}

Dotted == [v6 : {FALSE}, blanks : {"none", "around", "between"}, other : BOOLEAN,
           fields : UNION {[1 .. n -> Fields] : n \in {1, 3, 4}}]
Texts6 == [v6 : {TRUE}, kind : Kinds6]

NoAddress == [flag |-> "NONE_IP", addr |-> <<>>]

-----------------------------------------------------------------------------
(* The parsers. *)

Value(digits) == FoldLeft(LAMBDA n, d : 10 * n + d, 0, digits)

\* my_atoi: strtol() and a conversion to int.
MyAtoi(digits) ==
  LET n == Value(digits) % IntMod IN IF 2 * n >= IntMod THEN n - IntMod ELSE n

\* inet_pton(AF_INET): four numbers without blanks and without leading zeros.
\* A fault: as inet_aton does, it takes leading zeros.
InetAton4(t) ==
  /\ ~t.v6 /\ t.blanks = "none" /\ ~t.other
  /\ Len(t.fields) = 4
  /\ \A i \in 1 .. 4 : t.fields[i] # <<>> /\ Value(t.fields[i]) <= 255
InetPton4(t) ==
  /\ ~t.v6 /\ t.blanks = "none" /\ ~t.other
  /\ Len(t.fields) = 4
  /\ \A i \in 1 .. 4 :
       /\ Len(t.fields[i]) \in 1 .. 3
       /\ Value(t.fields[i]) <= 255
       /\ Head(t.fields[i]) = 0 => Len(t.fields[i]) = 1

\* check_blank: nothing but blanks, one word, or several.
CheckBlank(t) ==
  IF t.fields = <<<<>>>> /\ ~t.other THEN 0
  ELSE IF t.blanks = "between" THEN -1
  ELSE 1

\* strncpy to buf: what is left of field i.
InBuf(f, i) ==
  LET before == FoldLeft(LAMBDA n, d : n + Len(d) + 1, 0, SubSeq(f, 1, i - 1))
      room   == BufLen - 1 - before
  IN SubSeq(f[i], 1, IF room < 0 THEN 0 ELSE IF room < Len(f[i]) THEN room ELSE Len(f[i]))

\* dotted_to_ipaddr for one word: three dots, no two of them adjacent, nothing
\* but digits otherwise; an empty first number is zero, an empty last one an
\* error, and so is any number that is not a byte.  (The scan for adjacent dots
\* steps over the end of a text whose last character is a dot; inet_pton accepts
\* none, so no call gets here with one.)
IsDotted(t) ==
  /\ Len(t.fields) = 4
  /\ t.fields[2] # <<>> /\ t.fields[3] # <<>>
  /\ t.blanks = "none" /\ ~t.other
  /\ InBuf(t.fields, 4) # <<>>
  /\ \A i \in 1 .. 4 : MyAtoi(InBuf(t.fields, i)) \in 0 .. 255

Octets(t) == [i \in 1 .. 4 |-> MyAtoi(InBuf(t.fields, i))]

\* sprintf("%d"): the digits of a byte.
Printed(n) ==
  IF n < 10 THEN <<n>>
  ELSE IF n < 100 THEN <<n \div 10, n % 10>>
  ELSE <<n \div 100, (n \div 10) % 10, n % 10>>

HostOctets(o) == o[1] # 0 /\ o[1] <= 223 /\ o[4] # 255 /\ o[1] # 127

\* check_host_ipv4: the values it may return; without a return statement, for
\* a text of blanks only, any.
CheckHostIpv4(t) ==
  IF CheckBlank(t) = 0 THEN {-1, 0, 1}
  ELSE IF CheckBlank(t) = 1 /\ IsDotted(t) /\ HostOctets(Octets(t)) THEN {1}
  ELSE {-1}

\* The text after it.
Rewritten(t) ==
  IF CheckBlank(t) = 1 /\ IsDotted(t)
  THEN [t EXCEPT !.fields = [i \in 1 .. 4 |-> Printed(Octets(t)[i])]] ELSE t

CheckHostIpv6(kind) ==
  IF kind = "unspecified" THEN -1 ELSE IF kind = "loopback" THEN -2 ELSE 0

-----------------------------------------------------------------------------
(* check_host_ip_and_get_verion. *)

Init ==
  /\ text \in Dotted \union Texts6
  /\ jaddr = NoAddress
  /\ ret = 0
  /\ pc = "called"

Returns == pc = "called" /\ pc' = "returned"

\* The address is stored before it is known to be one of a host.
ChecksIpv4 ==
  /\ Returns
  /\ InetPton4(text)
  /\ jaddr' = [flag |-> "USE_IPV4", addr |-> [i \in 1 .. 4 |-> Value(text.fields[i])]]
  /\ \E r \in CheckHostIpv4(text) : ret' = IF r = 1 THEN 0 ELSE -1
  /\ text' = Rewritten(text)

ChecksIpv6 ==
  /\ Returns
  /\ ~InetPton4(text)
  /\ text.v6
  /\ jaddr' = [flag |-> "USE_IPV6", addr |-> text.kind]
  /\ ret' = CheckHostIpv6(text.kind)
  /\ UNCHANGED text

Refuses ==
  /\ Returns
  /\ ~InetPton4(text)
  /\ ~text.v6
  /\ ret' = -1
  /\ UNCHANGED <<text, jaddr>>

Next == ChecksIpv4 \/ ChecksIpv6 \/ Refuses

Spec == Init /\ [][Next]_vars

-----------------------------------------------------------------------------
(* Properties. *)

\* The two parsers agree on every text that passes the first: the second takes it
\* too, and finds the numbers that are stored, none of which has wrapped or been
\* cut off in its buffer; so the stored address is the one that is checked, and
\* the text is written back as it was.
ParsersAgree ==
  [][ChecksIpv4 =>
       /\ jaddr'.addr = Octets(text)
       /\ text' = text
       /\ ret' = 0 <=> HostOctets(jaddr'.addr)]_vars

=============================================================================
