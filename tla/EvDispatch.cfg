\* Two posting threads, three messages.
SPECIFICATION FairSpec
CONSTANTS
    Threads = {t1, t2}
    Dispatcher = dispatcherThread
    Nobody = nobody
    m1 = m1
    m2 = m2
    m3 = m3
    Msgs <- MCMsgs
    serviceCmd <- MCserviceCmd
    ava_srvs <- MCava_srvs
    Loadable <- MCLoadable
INVARIANTS TypeOK QueueExclusive FrontStable QueueLive NoLostWakeup
PROPERTIES ImplementsMsgChannel PostedIsHandled PostReturns
