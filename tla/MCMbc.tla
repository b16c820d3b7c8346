--------------------------------- MODULE MCMbc ---------------------------------
(* Two or three READ packets and one WRITE; requests of each kind, a buffer or *)
(* two to print, and a reset.  In RaceLoads the printer may interrupt the     *)
(* board between the two halves of DeliverPacket.                             *)
EXTENDS Mbc

MbcLoad(config, requests, buffers, n) ==
    [config |-> config, requests |-> requests, buffers |-> buffers, resets |-> n, races |-> FALSE]
StatusRequests == {"ASYNC_PER_STATUS", "INQUIRE_IO_STATUS"}

BoardLoads ==
    {MbcLoad(<<1, 1, 70>>, StatusRequests, 1, 0),
     MbcLoad(<<1, 1, 70>>, Requests, 0, 0),
     MbcLoad(<<1, 1, 80>>, {"ASYNC_PER_STATUS"}, 2, 0),
     MbcLoad(<<1, 1, 70>>, {"ASYNC_PER_STATUS"}, 1, 1)}

RaceLoads == {[MbcLoad(<<1, 1, 70>>, StatusRequests, 0, 0) EXCEPT !.races = TRUE]}
===============================================================================
