------------------------------- MODULE MCServices -------------------------------
(* Six units of 8 bytes and a word more, so that a block may be left that has *)
(* no room for its header: heap blocks of one and two units, one of them asked *)
(* for with a size that is not a multiple of 8, and stacks of one and two      *)
(* units; and the ways to load the print spooler, one at a time.               *)
EXTENDS Services

MCHeapSizes == {5, 16}
MCStackSizes == {8, 16}

MCSlotUser == [i \in 0 .. 2 |-> <<"lp0", "lp1", "lp2">>[i + 1]]
MCCR == <<-1, 13>>
MCLF == <<-1, 10>>
MCNUL == <<-1, 0>>
X == <<-1, 1>>
Y == <<-1, 2>>

PLoad(preempt, slow, drains, conns, files, pages, lost) ==
    [preempt |-> preempt, crowd |-> FALSE, tight |-> FALSE, atnull |-> FALSE, slow |-> slow,
     drains |-> drains, conns |-> conns, files |-> files, pages |-> pages, faults |-> lost]

From1(host, says) == [host |-> host, says |-> says]
JobOf(pieces, user) ==
    LET n == FoldSeq(LAMBDA x, m : x + m, 0, pieces)
    IN <<<<"job">>, <<"data", n>>>> \o [i \in DOMAIN pieces |-> <<"piece", pieces[i]>>]
         \o <<<<"zero">>, <<"control", 1>>, <<"piece", 1, user>>, <<"zero">>>>
File(text, netascii) == [text |-> text, netascii |-> netascii]

Removal(which, word, uname) == <<<<"remove", which, word, uname>>>>
Job1 == From1(1, JobOf(<<1, 1>>, "u"))

(* Everything that is accepted is printed: two jobs that need more nodes     *)
(* than there are; more test pages, and more files, than there are jobs; a   *)
(* file and a page; a job with the clock switching between writer and        *)
(* despooler, and clients that connect while others do.                      *)
Drains ==
    {PLoad(FALSE, FALSE, TRUE, <<Job1, From1(2, JobOf(<<3, 2>>, "v"))>>, <<>>, 0, 0),
     PLoad(FALSE, FALSE, TRUE, <<>>, <<>>, 3, 0),
     PLoad(FALSE, FALSE, TRUE, <<>>, [i \in 1 .. 3 |-> File(<<X>>, FALSE)], 0, 0),
     PLoad(FALSE, FALSE, TRUE, <<>>, <<File(<<X, Y>>, FALSE)>>, 1, 0),
     PLoad(TRUE, FALSE, TRUE, <<From1(1, JobOf(<<1, 2, 3>>, "u"))>>, <<>>, 0, 0),
     PLoad(TRUE, FALSE, TRUE, <<From1(1, JobOf(<<1>>, "u"))>>, <<>>, 1, 0)}

(* Not in the run: the clock lets a client in between the two halves of       *)
(* another's connect, and a job is lost (SpoolerConsistent is violated).      *)
CrowdLoads == {NothingToPrint} \union {[l EXCEPT !.crowd = TRUE] : l \in {d \in Drains : d.preempt}}

(* Files with a CR at the end of a block, at the end of the file, and twice, *)
(* in both modes; datagrams are lost and repeated; a client gives up.        *)
Transfers ==
    {PLoad(FALSE, TRUE, FALSE, <<>>, <<File(<<X, CR, LF, CR, NUL, CR>>, TRUE)>>, 0, 1),
     PLoad(FALSE, TRUE, FALSE, <<>>, <<File(<<CR, CR, LF>>, TRUE)>>, 0, 1),
     PLoad(FALSE, TRUE, FALSE, <<>>, <<File(<<X, Y>>, FALSE), File(<<CR>>, FALSE)>>, 0, 0)}

(* Jobs are removed by their user, by root, by another user or from another  *)
(* host, by number and by user name, printed or not; two jobs come over one   *)
(* connection; and one is removed while its writer waits for a node.          *)
TwoJobs(pieces) == From1(1, JobOf(<<1>>, "u") \o Tail(JobOf(pieces, "v")))
Removals ==
    {PLoad(FALSE, FALSE, FALSE, <<Job1, From1(h, Removal(w, IF w = "job" THEN 1 ELSE "", u))>>,
           <<>>, 0, 0) :
         h \in {1}, w \in {"active", "all", "job"}, u \in {"u", "w", "root"}}
    \union {PLoad(FALSE, FALSE, FALSE, <<Job1, From1(2, Removal(w, IF w = "job" THEN 1 ELSE "", "u"))>>,
           <<>>, 0, 0) : w \in {"all", "job"}}
    \union {PLoad(FALSE, FALSE, FALSE, <<TwoJobs(<<2>>), From1(1, Removal("user", "v", "v"))>>,
                  <<>>, 0, 0),
            PLoad(FALSE, FALSE, FALSE, <<TwoJobs(<<2, 1>>), From1(1, Removal("all", "", ""))>>,
                  <<>>, 0, 0),
            PLoad(FALSE, FALSE, FALSE,
                  <<From1(1, <<<<"job">>, <<"data", 2>>, <<"piece", 2>>, <<"zero">>>>),
                    From1(1, <<<<"job">>, <<"data", 6>>, <<"piece", 6>>>>),
                    From1(1, Removal("job", 2, "root"))>>, <<>>, 0, 0)}

(* The writer is slower than the despooler waits; commands out of turn; more *)
(* jobs at once than slots.                                                  *)
Oddities ==
    {PLoad(FALSE, TRUE, FALSE, <<From1(1, <<<<"job">>, <<"data", 3>>, <<"piece", 1>>,
           <<"piece", 2>>>>)>>, <<>>, 1, 0),
     PLoad(FALSE, FALSE, FALSE,
           <<From1(1, <<<<"job">>, <<"abort">>, <<"data", 2>>, <<"piece", 2>>, <<"junk">>>>),
             From1(1, <<<<"job">>, <<"junk">>>>), From1(1, <<<<"printw">>>>)>>, <<>>, 0, 0),
     PLoad(FALSE, FALSE, FALSE,
           <<From1(1, <<<<"job">>, <<"data", 0>>, <<"zero">>>>),
             From1(1, <<<<"job">>, <<"data", 1>>, <<"piece", 1>>>>),
             From1(1, <<<<"job">>, <<"data", 1>>, <<"piece", 1>>>>)>>, <<>>, 0, 0)}

PrintLoads == Drains \union Transfers \union Removals \union Oddities

ServiceLoads == PrintLoads \union {NothingToPrint}
===============================================================================
