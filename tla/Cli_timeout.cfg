\* hairgapr with no -t, -t 1 and -t 5; hairgaps with keep-alives at the
\* default 500 ms, off (-k 0) and at -k 1500 (sleep(1)); datagrams 10 us
\* apart while data flows, 2 s apart when the sender's input stalls.
CONSTANTS
    NumSpace = 65536
    Absent = Absent
    TArgs = {Absent, 1, 5}
    KArgs = {Absent, 0, 1500}
    DataGaps = {10, 2000000}
    MaxArrivals = 3
SPECIFICATION Spec
INVARIANT TimeoutAsDocumented
CHECK_DEADLOCK FALSE
