------------------------------- MODULE MCRouter -------------------------------
(* Constants of the TLC runs of Router. *)
EXTENDS Router

MCLowerOf == ("A" :> "a") @@ ("DIRECT" :> "direct")
BitsOf(n) == {b \in Bits : (n \div 2^b) % 2 = 1}
MCAddressOf == [s \in {"@0", "@1", "@2", "@3", "@4", "@5", "@6", "@7"} |->
    BitsOf(CHOOSE n \in 0..7 : s = <<"@0", "@1", "@2", "@3", "@4", "@5", "@6", "@7">>[n + 1])]
MCNumberOf == ("0" :> 0) @@ ("1" :> 1) @@ ("2" :> 2) @@ ("3" :> 3) @@ ("4" :> 4)

Letters == {"a", "b", "."}
MCHosts ==
    UNION {[1..n -> Letters] : n \in 1..4}
    \cup {<<"A", ".", "b">>} \cup {<<s>> : s \in DOMAIN MCAddressOf}

AB == <<"a", ".", "b">>
Cidr(prefix) == <<<<"IP-CIDR">>, <<"@5", "/", prefix>>, <<"DIRECT">>>>

\* Every type, in the spellings the loader and doctor tell apart.
SoundLines ==
    {<<<<"DOMAIN-SUFFIX">>, <<"b">>, <<"DIRECT">>>>,
     <<<<"DOMAIN-SUFFIX">>, <<" ", "A", ".", "b", " ">>, <<"REJECT">>>>,
     <<<<"DOMAIN-KEYWORD">>, AB, <<"REJECT">>>>,
     <<<<"DOMAIN">>, AB, <<"PROXY">>>>,
     <<<<"IP-CIDR">>, <<"@6">>, <<"REJECT">>>>,
     <<<<"FINAL">>, <<"REJECT">>>>} \cup {Cidr(n) : n \in {"0", "1", "2", "3"}}
OtherLines ==
    {<<<<"DOMAIN">>, <<" ">>, <<"DIRECT">>>>,
     <<<<"DOMAIN">>, AB, <<" ", "direct">>>>,
     <<<<"DOMAIN-SUFFIX">>, <<>>, <<"a">>, <<"BLOCK">>>>,
     <<<<"DOMAIN-KEYWORD">>, <<"a">>>>,
     <<<<"#">>, <<"a">>, <<"DIRECT">>>>,
     <<<<" ", "MATCH">>, <<"DIRECT">>>>,
     <<<<>>>>, Cidr("4"), Cidr("a")}
MCLines == SoundLines \cup OtherLines
=============================================================================
