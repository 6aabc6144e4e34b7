------------------------------- MODULE MCServer -------------------------------
(* TLC instances of EpollServer. *)
EXTENDS EpollServer

\* What the first client sends: pipelined requests behind the limit of a
\* connection and behind a Connection: close, requests in pieces, an API request
\* with its body, a malformed request and a head that does not fit the buffer.
Rich == {
    <<"head", "head", "get", "head">>,
    <<"part", "get", "post", "data">>,
    <<"part", "part", "part">>,
    <<"part", "part", "post">>,
    <<"close", "get">>,
    <<"bad", "get">> }

\* The second client competes for the slots.
TestScripts == {<<s, <<>> >> : s \in Rich} \cup {<< <<"get">>, <<"post", "data">> >>}

\* One client pipelines small requests and a send buffer holds every answer.
Pipelined == {<< <<"head", "head", "head">> >>}
===============================================================================
