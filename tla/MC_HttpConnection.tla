------------------------- MODULE MC_HttpConnection -------------------------
(* Request scripts and the Gomoku router table for the HttpConnection run. *)
EXTENDS HttpConnection

Get(path, hdrs) == [m |-> "GET", v |-> "HTTP/1.1", path |-> path, hdrs |-> hdrs, body |-> 0]
Menu == Get("/menu", <<>>)

\* A browser-like session: a menu, a keep-alive HTTP/1.0 registration with
\* a 2-byte body, the menu again (a bodiless request after one with a
\* body), and a login with a 1-byte body that asks to close.
Browse ==
    << Menu,
       [m |-> "POST", v |-> "HTTP/1.0", path |-> "/register",
        hdrs |-> << <<"Content-Length", Num(2)>>, <<"Connection", "Keep-Alive">> >>, body |-> 2],
       Get("/menu", << <<"Host", "h">> >>),
       [m |-> "POST", v |-> "HTTP/1.1", path |-> "/login",
        hdrs |-> << <<"Content-Length", Num(1)>>, <<"Connection", "close">> >>, body |-> 1] >>

\* A menu, then a login whose Content-Length ("abc") std::stoi cannot convert.
BadLength ==
    << Menu,
       [m |-> "POST", v |-> "HTTP/1.1", path |-> "/login",
        hdrs |-> << <<"Host", "h">>, <<"Content-Length", NaN>> >>, body |-> 2] >>

\* A menu, then a PUT with a 2-byte body that no route takes (a 404).
Unrouted ==
    << Menu,
       [m |-> "PUT", v |-> "HTTP/1.1", path |-> "/register",
        hdrs |-> << <<"Content-Length", Num(2)>> >>, body |-> 2] >>

\* A login with a header line that has no ':', then a menu.
BadHeader ==
    << [m |-> "POST", v |-> "HTTP/1.1", path |-> "/login",
        hdrs |-> << <<"", "x">>, <<"Content-Length", Num(1)>> >>, body |-> 1],
       Menu >>

\* A CORS preflight, then a menu.
CorsPreflight ==
    << [m |-> "OPTIONS", v |-> "HTTP/1.1", path |-> "/login", hdrs |-> <<>>, body |-> 0],
       Menu >>

\* A registration whose Content-Length is -1, then a menu.
Negative ==
    << [m |-> "POST", v |-> "HTTP/1.1", path |-> "/register",
        hdrs |-> << <<"Content-Length", Num(-1)>> >>, body |-> 1],
       Menu >>

MCScripts == {Browse, BadLength, Unrouted, BadHeader, CorsPreflight, Negative}

\* GomokuServer::initializeRouter, with the Connection decision each
\* handler leaves: MenuHandler keeps the connection; RegisterHandler keeps
\* it or throws in json::parse (500, onRequest's decision); LoginHandler
\* closes on 400/403 and keeps on 200/401; restartChessGameVsAi closes.
MCRoutes ==
    [k \in {<<"GET", "/menu">>, <<"POST", "/register">>, <<"POST", "/login">>,
            <<"GET", "/aiBot/restart">>} |->
        CASE k[2] = "/menu"     -> {"keep"}
          [] k[2] = "/register" -> {"keep", "default"}
          [] k[2] = "/login"    -> {"keep", "close"}
          [] OTHER              -> {"close"}]
=============================================================================
