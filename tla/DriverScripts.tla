--------------------------- MODULE DriverScripts ---------------------------
(***************************************************************************)
(* The register and unregister functions of the drivers, as scripts for    *)
(* DriverLifecycle.  A script keeps what those functions do about           *)
(* resources: the order, which results are tested, the label a failure     *)
(* jumps to (spelled out as the list of releases that follow it) and what  *)
(* the function returns.                                                   *)
(***************************************************************************)
EXTENDS Sequences

\* An acquisition whose failure runs undo and then returns an error.
Take(r, undo) ==
    [op |-> "acquire", res |-> r, checked |-> TRUE, undo |-> undo,
     returns |-> "absent"]

\* The same, but the function returns 0, the value ret was left with.
TakeOrZero(r, undo) == [Take(r, undo) EXCEPT !.returns = "loaded"]

\* An acquisition whose result is not looked at.
TakeAnyway(r) == [Take(r, <<>>) EXCEPT !.checked = FALSE]

\* Used up on the way: released, or handed over to what was acquired last.
Dropped(r) == [TakeAnyway(r) EXCEPT !.op = "drop"]

Labels == <<"device", "class", "chrdev">>   \* out_dev, out_class, out_dev_num

\* chrdev, class, device, with the chrdev region's result ignored or not.
Frame(chrdev) ==
    <<chrdev, Take("class", <<"chrdev">>), Take("device", <<"class", "chrdev">>)>>

template ==
    [steps |-> Frame(TakeAnyway("chrdev")), exit |-> Labels]

static_call ==
    [steps |-> Frame(TakeAnyway("chrdev")), exit |-> Labels]

firmware ==
    [steps |-> Frame(TakeAnyway("chrdev"))
                 \o <<Take("image", Labels), Dropped("image")>>,
     exit |-> Labels]

\* return dummy_regulator_register(regulator): out_dev is commented out.
regulator ==
    [steps |-> Frame(TakeAnyway("chrdev")) \o <<Take("regulator", <<>>)>>,
     exit |-> Labels]

\* return dev_err_probe(...): out_dev is commented out here too.
consumer ==
    [steps |-> Frame(TakeAnyway("chrdev")) \o <<Take("supply", <<>>)>>,
     exit |-> Labels]

gpio ==
    [steps |-> Frame(Take("chrdev", <<>>)) \o <<TakeAnyway("gpiochip")>>,
     exit |-> Labels]

\* err_free_dev deletes the adapter it could not add.
i2c ==
    [steps |-> Frame(Take("chrdev", <<>>))
                 \o <<Take("adapter", <<"adapter">> \o Labels)>>,
     exit |-> <<"adapter">> \o Labels]

\* ret is still 0 at most of the jumps, and the failure to allocate the
\* buffer jumps nowhere.
spi ==
    [steps |-> <<Take("chrdev", <<>>),
                 TakeOrZero("class", <<"chrdev">>),
                 TakeOrZero("device", <<"class", "chrdev">>),
                 TakeOrZero("host", Labels),
                 Take("buf", <<>>),
                 Take("controller", Labels),
                 TakeOrZero("spidev", Labels)>>,
     exit |-> Labels]

\* dummy_fb_alloc() undoes its own allocations, except when
\* register_framebuffer() fails; fbops and fbdefio are freed only there.
fbdev ==
    [steps |-> Frame(Take("chrdev", <<>>))
                 \o <<Take("vmem", Labels),
                      Take("fbops", <<"vmem">> \o Labels),
                      Take("fbdefio", <<"fbops", "vmem">> \o Labels),
                      Take("info", <<"fbdefio", "fbops", "vmem">> \o Labels),
                      TakeAnyway("defio"),
                      Take("framebuffer", Labels)>>,
     exit |-> <<"defio", "framebuffer", "vmem", "info">> \o Labels]

\* out_drm puts the reference that devm_drm_dev_alloc() left to the device.
drm ==
    [steps |-> Frame(TakeAnyway("chrdev"))
                 \o <<Take("drm", Labels),
                      Take("modeset", <<"drm">> \o Labels),
                      Take("minor", <<"drm">> \o Labels)>>,
     exit |-> <<"minor">> \o Labels]

\* No result is acted on; the last v4l2_device_put() runs
\* dummy_video_release(), which kfree()s the static struct dummy_video.
video ==
    [steps |-> <<TakeAnyway("v4l2_device"), TakeAnyway("video_device")>>,
     exit |-> <<"v4l2_device", "video_device", "v4l2_device", "kmalloc">>]

\* numdummies = 2.  register_netdevice() takes charge of the netdev that
\* alloc_netdev() made, rtnl_link_unregister() unregisters them all.
net ==
    [steps |-> <<Take("link", <<>>),
                 Take("netdev0", <<"link">>),
                 Take("dummy0", <<"netdev0", "link">>), Dropped("netdev0"),
                 Take("netdev1", <<"link">>),
                 Take("dummy1", <<"netdev1", "link">>), Dropped("netdev1")>>,
     exit |-> <<"link">>]

Scripts ==
    [template |-> template, static_call |-> static_call,
     firmware |-> firmware, regulator |-> regulator, consumer |-> consumer,
     gpio |-> gpio, i2c |-> i2c, spi |-> spi, fbdev |-> fbdev, drm |-> drm,
     video |-> video, net |-> net]

\* The names given to class_create(); drm.c still uses the template's.
\* video.c and net.c create no class.
ClassNames ==
    [d \in DOMAIN Scripts |->
       IF d = "drm" THEN "template" ELSE d]

AllResources ==
    {"chrdev", "class", "device", "image", "regulator", "supply", "gpiochip",
     "adapter", "host", "buf", "controller", "spidev", "vmem", "fbops",
     "fbdefio", "info", "defio", "framebuffer", "drm", "modeset", "minor",
     "v4l2_device", "video_device", "kmalloc", "link", "netdev0", "netdev1",
     "dummy0", "dummy1"}

\* What the kernel releases along with a resource: the devres of a device,
\* the SPI devices of a controller, what is managed by a DRM device, the
\* network devices of a link type.
Families ==
    [r \in AllResources |->
       {r} \cup
       CASE r = "device" -> {"regulator", "supply", "gpiochip", "host", "buf",
                             "controller", "spidev", "drm", "modeset"}
         [] r = "controller" -> {"spidev"}
         [] r = "drm" -> {"modeset"}
         [] r = "link" -> {"dummy0", "dummy1"}
         [] OTHER -> {}]

\* Drivers grown from the template do not look at alloc_chrdev_region()'s
\* result; nothing is ever served through the region.
OptionalResources == {"chrdev"}

\* What has to exist as long as a resource does.
Support ==
    [r \in AllResources |->
       CASE r = "device" -> {"class"}
         [] r \in {"regulator", "supply", "gpiochip", "host", "drm", "info",
                   "image"} -> {"device"}
         [] r = "controller" -> {"host"}
         [] r = "spidev" -> {"controller"}
         [] r = "framebuffer" -> {"info", "vmem", "fbops", "fbdefio"}
         [] r \in {"modeset", "minor"} -> {"drm"}
         [] r \in {"dummy0", "dummy1"} -> {"link"}
         [] OTHER -> {}]

\* unregister_chrdev_region(), i2c_del_adapter(), fb_deferred_io_cleanup(),
\* v4l2_device_unregister() and video_unregister_device() return quietly
\* when there is nothing to do.
TolerantReleases ==
    {"chrdev", "adapter", "defio", "v4l2_device", "video_device"}
=============================================================================
