\* SPSC transfer of 4 values through a 2-slot channel (channel_test.c);
\* the consumer may poison the channel after any ack (decloop on error).
CONSTANTS
    Cap = 2
    NMsg = 4
    ConsumerPoisons = TRUE
SPECIFICATION Spec
INVARIANT TypeOK
PROPERTY ChannelRefinesQueue
PROPERTY AllDelivered
