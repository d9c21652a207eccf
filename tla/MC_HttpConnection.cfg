\* A browser-like client on one keep-alive connection, sending one of six
\* scripts and pipelining at will; TCP splits the bytes at every token.
CONSTANTS
    Scripts <- MCScripts
    Routes <- MCRoutes
    Pipelined = TRUE
    LineBytes = 2
    LenBits = 16
SPECIFICATION Spec
\* A script ends with the server shutting down, the client having asked to
\* close or sent everything, or a request waiting for a body that never
\* comes: nothing happens after that.
CHECK_DEADLOCK FALSE
INVARIANT TypeOK
 
