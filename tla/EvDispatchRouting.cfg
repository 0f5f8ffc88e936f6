\* The routing the DummyLogin test uses, against what proc_msg does.
SPECIFICATION Spec
CONSTANTS
    Threads = {t1}
    Dispatcher = dispatcherThread
    Nobody = nobody
    m1 = m1
    m2 = m2
    m3 = m3
    Msgs <- MCMsgs
    serviceCmd <- MCserviceCmd
    ava_srvs <- MCava_srvs
    Loadable <- MCLoadable
INVARIANT RoutedByFirstPart
