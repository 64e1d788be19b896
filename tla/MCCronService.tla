---------------------------- MODULE MCCronService ----------------------------
\* Instances of CronService for TLC.
EXTENDS CronService

\* An expression is its period: it ticks at the multiples of it.
MultipleAfter(period, t) == ((t \div period) + 1) * period

At(s)    == [kind |-> "at", t |-> s]
Every(s) == [kind |-> "every", t |-> s]
Cron(s)  == [kind |-> "cron", t |-> s]

Mixed == {At(1), Every(2), Cron(2), Every(0)}
CronAndEvery == {Cron(2), Every(2)}
EveryOnly == {Every(2)}
==============================================================================
