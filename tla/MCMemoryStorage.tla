-------------------------- MODULE MCMemoryStorage --------------------------
(* The in-memory storage with every path of up to two names and two of three *)
(* names, some written with "..", and payloads of zero and one byte.     *)
EXTENDS MemoryStorage

MCRawPath ==
    {<<n>> : n \in Name}
    \cup {<<n, m>> : n \in Name, m \in Name}
    \cup {<<n, n, n>> : n \in Name}
    \cup {<< >>, <<"..">>}
    \cup {<<n, "..", m>> : n \in Name, m \in Name}

MCData == {<< >>} \cup {<<b>> : b \in Byte}
=============================================================================
