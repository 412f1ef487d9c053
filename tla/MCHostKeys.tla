------------------------------ MODULE MCHostKeys ------------------------------
EXTENDS HostKeys
CONSTANTS s1, s2

Conf(kind, args) == [kind |-> kind, args |-> args]
MCLines ==
    {Conf("host", <<<<"a">>>>), Conf("host", <<<<"!", "a">>, <<"b", "*">>>>),
     Conf("host", <<<<"b">>, <<"a">>>>), Conf("hostname", <<<<"a", "b">>>>), Conf("hostname", <<>>),
     Conf("hostname", <<<<"b">>>>), Conf("include", <<>>), Conf("match", <<>>), Conf("other", <<>>)}
MCAsked == {<<"a">>, <<"b", "*">>}

Ed(d) == [type |-> "ssh-ed25519", data |-> d]
Rsa(d) == [type |-> "rsa-sha2-512", data |-> d]
MCKeys == {Ed("k1"), Ed("k2"), Rsa("k3")}
Everyone == {<<"*">>}
MCSystemFiles ==
    {<<>>,
     <<Line({<<"[", "a", "?", "]", ":", "2">>}, FALSE, Ed("k1"), "cert-authority")>>,
     <<Line(Everyone, FALSE, Ed("k1"), "revoked")>>,
     <<Line(Everyone, FALSE, Ed("k1"), "none"), Line(Everyone, FALSE, [type |-> "ssh-rsa", data |-> "k3"], "none"),
       Line({<<"[", "a", "]", ":", "2">>}, TRUE, Ed("k1"), "revoked")>>,
     <<Line({<<"a">>}, TRUE, Ed("k2"), "none"),
       Line({<<"[", "*", "b", "]", "*">>}, FALSE, [type |-> "sk-ssh-ed25519", data |-> "k1"], "none")>>}
Symmetry == Permutations(Scans)
MCPort == "2"
MCPatterns == {<<x, y, z>> : x, y, z \in {"*", "?", "[", "2"}}
             \cup {<<"*", x, y, "*", z>> : x, y, z \in {"*", "?", "b", "2"}}
===============================================================================
