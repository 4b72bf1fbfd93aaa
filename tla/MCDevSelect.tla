---------------------------- MODULE MCDevSelect ----------------------------
(* DevSelect for TLC.  Ports a and c are 1-1 and 1-10, port b is 2-10, whose *)
(* name is as long as 1-10, and port h is behind a hub: 2-2.4, with a slash  *)
(* more.  The first devices of the buses have number 2, so that the first    *)
(* device of bus 2 has equal bus and device numbers.  Two supported cameras, *)
(* one of them without serial number, a webcam of the same vendor that is    *)
(* not supported, and a video node of no USB device.                         *)
EXTENDS DevSelect

MCPort == {"a", "b", "c", "h"}
MCBus == [a |-> 1, b |-> 2, c |-> 1, h |-> 2]
MCHub == [a |-> <<"usb1", "/">>, b |-> <<"usb2", "/">>, c |-> <<"usb1", "/">>,
          h |-> <<"usb2", "/", "2-", "2", "/">>]
MCName == [a |-> <<"1-", "1">>, b |-> <<"2-", "1", "0">>, c |-> <<"1-", "1", "0">>,
           h |-> <<"2-", "2", ".", "4">>]
MCNodeTail == <<":1.0", "/", "video4linux", "/", "v", "i", "d", "e", "o", "N">>
MCPlatLink == <<"plat", "/", "dev", "/", "video4linux", "/", "v", "i", "d", "e", "o", "N">>
MCEntries == << [port |-> "b", iface |-> TRUE], [port |-> "c", iface |-> FALSE],
                [port |-> "c", iface |-> TRUE], [port |-> "b", iface |-> FALSE],
                [port |-> "a", iface |-> FALSE], [port |-> "a", iface |-> TRUE],
                [port |-> "h", iface |-> FALSE], [port |-> "h", iface |-> TRUE] >>
MCDevice == { [vid |-> 3, pid |-> 8, sn |-> <<1, 2>>, uvc |-> TRUE],
              [vid |-> 3, pid |-> 8, sn |-> NoSerial, uvc |-> TRUE],
              [vid |-> 3, pid |-> 9, sn |-> <<1>>, uvc |-> TRUE] }
MCSupported == { <<3, 8>> }
MCSerial == { <<1>>, <<1, 2>> }
=============================================================================
